---- MODULE Spec2Model ----
(***************************************************************************)
(* A model of the CCG chart parser of smelm/ccg: the category algebra, the *)
(* undirected combinators and their directional wrappers, the CYK chart    *)
(* construction of chart_parse, derivation extraction and the composition  *)
(* of semantic terms.                                                      *)
(***************************************************************************)
EXTENDS Integers, Sequences, FiniteSets, TLC

VARIABLES
    function,   \* first operand of the call: a category, or a semantic term
    argument,   \* second operand of the call
    op,         \* the combinator, rule or function last called on the operands
    can,        \* what can_combine returned
    out,        \* the list combine yielded
    raised,     \* TRUE when the call ended in an exception
    exc,        \* the class of the exception a semantics call ended in
    builders,   \* category._restrs of each PrimitiveCategoryBuilder
    built,      \* what the LexiconBuilder calls built, in order
    lexicon,    \* the CCGLexicon: how _entries was built, _start, _entries
    rules,      \* the rule set handed to chart_parse
    tokens,     \* the input token list
    edges,      \* the chart's edges, in the order they were inserted
    cpls,       \* the child-pointer lists of each edge, in insertion order
    pc,         \* where chart_parse is: leaves, sweep, parses, done, error
    index,      \* the position whose leaf edges are inserted next
    pos,        \* the sweep's loop variables and the two list iterators
    result,     \* the derivation trees chart_parse returned
    run,        \* 1 in the first call, 2 in a second call on the same input
    first       \* the chart and the trees of the first call

combVars == <<function, argument, op, can, out, raised, exc, builders,
             built>>

chartVars == <<lexicon, rules, tokens, edges, cpls, pc, index, pos, result,
               run, first>>

vars == <<function, argument, op, can, out, raised, exc, builders, built,
          lexicon, rules, tokens, edges, cpls, pc, index, pos, result, run,
          first>>

(***************************************************************************)
(* Bounds of the model.                                                    *)
(***************************************************************************)
\* number of primitive category names the combinator inputs are built from
NumPrims == 2

\* every token list up to this length is parsed, with every lexicon
MaxLen == 3

\* a PrimitiveCategoryBuilder gets at most this many restriction tags
MaxTags == 4

\* the LexiconBuilder builds at most this many categories, families and
\* entries
MaxBuilt == 2

(***************************************************************************)
(* Categories (ccg.api).  A direction is a slash with the two flags that   *)
(* say whether composition and crossing may use this occurrence.           *)
(***************************************************************************)
Direction(slash, composable, crossable) ==
    [slash |-> slash, composable |-> composable, crossable |-> crossable]

is_forward(d) == d.slash = "/"

is_backward(d) == d.slash = "\\"

can_compose(d) == d.composable

can_cross(d) == d.crossable

\* Direction.__neg__: the slash flips, the flags stay
NegDirection(d) ==
    Direction(IF d.slash = "/" THEN "\\" ELSE "/", d.composable, d.crossable)

PrimitiveCategory(categ, restrs) ==
    [kind |-> "prim", categ |-> categ, restrs |-> restrs]

FunctionalCategory(res, arg, dir) ==
    [kind |-> "fun", res |-> res, arg |-> arg, dir |-> dir]

CCGVar(id) == [kind |-> "var", id |-> id]

is_primitive(c) == c.kind = "prim"

is_function(c) == c.kind = "fun"

is_var(c) == c.kind = "var"

(***************************************************************************)
(* Unification and substitution.  A substitution maps variable ids to      *)
(* categories; unification either fails or gives a substitution.           *)
(***************************************************************************)
NoSubs == [ok |-> FALSE]

Subs(s) == [ok |-> TRUE, subs |-> s]

EmptySubs == [v \in {} |-> 0]

\* two substitutions bind no variable to two different categories
Agree(s1, s2) == \A v \in (DOMAIN s1) \cap (DOMAIN s2) : s1[v] = s2[v]

RECURSIVE can_unify(_, _)
can_unify(a, b) ==
    IF is_var(a) THEN Subs(a.id :> b)
    ELSE IF is_var(b) THEN Subs(b.id :> a)
    ELSE IF is_primitive(a) /\ is_primitive(b)
         THEN IF a.categ = b.categ THEN Subs(EmptySubs) ELSE NoSubs
    ELSE IF is_function(a) /\ is_function(b)
         THEN IF a.dir.slash # b.dir.slash THEN NoSubs
              ELSE LET sa == can_unify(a.arg, b.arg)
                       sr == can_unify(a.res, b.res)
                   IN  IF sa.ok /\ sr.ok /\ Agree(sa.subs, sr.subs)
                       THEN Subs(sa.subs @@ sr.subs)
                       ELSE NoSubs
    ELSE NoSubs

RECURSIVE substitute(_, _)
substitute(c, subs) ==
    IF is_var(c) THEN (IF c.id \in DOMAIN subs THEN subs[c.id] ELSE c)
    ELSE IF is_function(c)
         THEN FunctionalCategory(substitute(c.res, subs),
                                 substitute(c.arg, subs), c.dir)
    ELSE c

(***************************************************************************)
(* The undirected combinators (ccg/combinator).  combine yields a list.    *)
(***************************************************************************)
\* a can_combine that only looks at the shape of the function
FunctionApplication_can_combine_NoUnify(f, a) == is_function(f)

FunctionApplication_can_combine(f, a) ==
    IF ~is_function(f) THEN FALSE
    ELSE can_unify(f.arg, a).ok

\* a combine that yields the result without the bindings of the unification
FunctionApplication_combine_NoSubstitute(f, a) ==
    IF ~is_function(f) THEN <<>>
    ELSE IF ~can_unify(f.arg, a).ok THEN <<>>
    ELSE <<f.res>>

FunctionApplication_combine(f, a) ==
    IF ~is_function(f) THEN <<>>
    ELSE LET subs == can_unify(f.arg, a)
         IN  IF ~subs.ok THEN <<>>
             ELSE <<substitute(f.res, subs.subs)>>

Composition_can_combine(f, a) ==
    IF ~(is_function(f) /\ is_function(a)) THEN FALSE
    ELSE IF can_compose(f.dir) /\ can_compose(a.dir)
         THEN can_unify(f.arg, a.res).ok
    ELSE FALSE

\* a combine that gives the composed category the function's direction
Composition_combine_FunctionDir(f, a) ==
    IF ~(is_function(f) /\ is_function(a)) THEN <<>>
    ELSE IF ~(can_compose(f.dir) /\ can_compose(a.dir)) THEN <<>>
    ELSE LET subs == can_unify(f.arg, a.res)
         IN  IF ~subs.ok THEN <<>>
             ELSE <<FunctionalCategory(substitute(f.res, subs.subs),
                                       substitute(a.arg, subs.subs),
                                       f.dir)>>

Composition_combine(f, a) ==
    IF ~(is_function(f) /\ is_function(a)) THEN <<>>
    ELSE IF can_compose(f.dir) /\ can_compose(a.dir)
         THEN LET subs == can_unify(f.arg, a.res)
              IN  IF subs.ok
                  THEN <<FunctionalCategory(substitute(f.res, subs.subs),
                                            substitute(a.arg, subs.subs),
                                            a.dir)>>
                  ELSE <<>>
    ELSE <<>>

\* Substitution.can_combine tests is_primitive() and then calls res(), arg()
\* and dir(), which only a functional category has: on a variable category
\* the call ends in an AttributeError.  This is the set of operands on which
\* the method reaches such a call, in the order the code evaluates them.
Substitution_raises(f, a) ==
    /\ ~is_primitive(f)
    /\ ~is_primitive(a)
    /\ \/ is_var(f)
       \/ /\ ~is_primitive(f.res)
          /\ is_primitive(f.arg)
          /\ can_compose(f.dir)
          /\ \/ is_var(a)
             \/ can_compose(a.dir) /\ is_var(f.res)

\* the value Substitution.can_combine returns when it returns
Substitution_can_combine(f, a) ==
    IF is_primitive(f) \/ is_primitive(a) THEN FALSE
    ELSE IF Substitution_raises(f, a) THEN FALSE
    ELSE IF is_primitive(f.res) THEN FALSE
    ELSE IF ~is_primitive(f.arg) THEN FALSE
    ELSE IF ~(can_compose(f.dir) /\ can_compose(a.dir)) THEN FALSE
    ELSE (f.res.arg = a.res) /\ (f.arg = a.arg)

Substitution_combine(f, a) ==
    IF Substitution_can_combine(f, a)
    THEN <<FunctionalCategory(f.res.res, a.arg, a.dir)>>
    ELSE <<>>

\* the left-most functional category: (N\N)/(S/NP) gives N\N
RECURSIVE innermostFunction(_)
innermostFunction(categ) ==
    IF is_function(categ.res) THEN innermostFunction(categ.res) ELSE categ

TypeRaise_can_combine(f, arg) ==
    IF ~(is_function(arg) /\ is_function(arg.res)) THEN FALSE
    ELSE can_unify(f, innermostFunction(arg).arg).ok

\* a combine that takes the direction of the whole argument category
TypeRaise_combine_OuterDir(f, arg) ==
    IF ~(is_primitive(f) /\ is_function(arg) /\ is_function(arg.res))
    THEN <<>>
    ELSE LET inner == innermostFunction(arg)
             subs == can_unify(f, inner.arg)
         IN  IF subs.ok
             THEN LET xcat == substitute(inner.res, subs.subs)
                  IN  <<FunctionalCategory(
                            xcat,
                            FunctionalCategory(xcat, f, arg.dir),
                            NegDirection(arg.dir))>>
             ELSE <<>>

TypeRaise_combine(f, arg) ==
    IF ~(is_primitive(f) /\ is_function(arg) /\ is_function(arg.res))
    THEN <<>>
    ELSE LET inner == innermostFunction(arg)
             subs == can_unify(f, inner.arg)
         IN  IF subs.ok
             THEN LET xcat == substitute(inner.res, subs.subs)
                  IN  <<FunctionalCategory(
                            xcat,
                            FunctionalCategory(xcat, f, inner.dir),
                            NegDirection(inner.dir))>>
             ELSE <<>>

(***************************************************************************)
(* Predicates of the directional rules (ccg/combinator/combinator.py).     *)
(***************************************************************************)
forwardOnly(left, right) == is_forward(left.dir)

backwardOnly(left, right) == is_backward(right.dir)

bothForward(left, right) == is_forward(left.dir) /\ is_forward(right.dir)

crossedDirs(left, right) == is_forward(left.dir) /\ is_backward(right.dir)

\* "if not left.dir().can_cross() and right.dir().can_cross(): return False"
\* negates the left test only
backwardBxConstraint(left, right) ==
    IF ~crossedDirs(left, right) THEN FALSE
    ELSE IF (~can_cross(left.dir)) /\ can_cross(right.dir) THEN FALSE
    ELSE is_primitive(left.arg)

forwardSConstraint(left, right) ==
    IF ~bothForward(left, right) THEN FALSE
    ELSE is_forward(left.res.dir) /\ is_primitive(left.arg)

backwardSxConstraint(left, right) ==
    IF (~can_cross(left.dir)) /\ can_cross(right.dir) THEN FALSE
    ELSE IF ~bothForward(left, right) THEN FALSE
    ELSE is_backward(right.res.dir) /\ is_primitive(right.arg)

forwardTConstraint(left, right) ==
    LET arg == innermostFunction(right)
    IN  is_backward(arg.dir) /\ is_primitive(arg.res)

backwardTConstraint(left, right) ==
    LET arg == innermostFunction(left)
    IN  is_forward(arg.dir) /\ is_primitive(arg.res)

(***************************************************************************)
(* The directional rules: an undirected combinator, whether the operands   *)
(* are swapped before it is called, a predicate and a display suffix.      *)
(***************************************************************************)
RuleTable ==
    [ForwardApplication |->
        [combinator |-> "FunctionApplication", backward |-> FALSE,
         predicate |-> "forwardOnly", str |-> ">"],
     BackwardApplication |->
        [combinator |-> "FunctionApplication", backward |-> TRUE,
         predicate |-> "backwardOnly", str |-> "<"],
     ForwardComposition |->
        [combinator |-> "Composition", backward |-> FALSE,
         predicate |-> "forwardOnly", str |-> ">B"],
     BackwardComposition |->
        [combinator |-> "Composition", backward |-> TRUE,
         predicate |-> "backwardOnly", str |-> "<B"],
     BackwardBx |->
        [combinator |-> "Composition", backward |-> TRUE,
         predicate |-> "backwardBxConstraint", str |-> "<Bx"],
     ForwardSubstitution |->
        [combinator |-> "Substitution", backward |-> FALSE,
         predicate |-> "forwardSConstraint", str |-> ">S"],
     BackwardSx |->
        [combinator |-> "Substitution", backward |-> TRUE,
         predicate |-> "backwardSxConstraint", str |-> "<Sx"],
     ForwardT |->
        [combinator |-> "TypeRaise", backward |-> FALSE,
         predicate |-> "forwardTConstraint", str |-> ">T"],
     BackwardT |->
        [combinator |-> "TypeRaise", backward |-> TRUE,
         predicate |-> "backwardTConstraint", str |-> "<T"]]

\* the undirected combinator's can_combine(function, argument)
Undirected_can_combine(c, f, a) ==
    CASE c = "FunctionApplication" -> FunctionApplication_can_combine(f, a)
      [] c = "Composition" -> Composition_can_combine(f, a)
      [] c = "Substitution" -> Substitution_can_combine(f, a)
      [] c = "TypeRaise" -> TypeRaise_can_combine(f, a)

\* the undirected combinator's combine(function, argument)
Undirected_combine(c, f, a) ==
    CASE c = "FunctionApplication" -> FunctionApplication_combine(f, a)
      [] c = "Composition" -> Composition_combine(f, a)
      [] c = "Substitution" -> Substitution_combine(f, a)
      [] c = "TypeRaise" -> TypeRaise_combine(f, a)

\* the undirected combinator's call ends in an exception
Undirected_raises(c, f, a) == c = "Substitution" /\ Substitution_raises(f, a)

Predicate(p, left, right) ==
    CASE p = "forwardOnly" -> forwardOnly(left, right)
      [] p = "backwardOnly" -> backwardOnly(left, right)
      [] p = "backwardBxConstraint" -> backwardBxConstraint(left, right)
      [] p = "forwardSConstraint" -> forwardSConstraint(left, right)
      [] p = "backwardSxConstraint" -> backwardSxConstraint(left, right)
      [] p = "forwardTConstraint" -> forwardTConstraint(left, right)
      [] p = "backwardTConstraint" -> backwardTConstraint(left, right)

\* ForwardCombinator.can_combine and BackwardCombinator.can_combine: the
\* predicate is evaluated only when the combinator's can_combine is true
Rule_can_combine(rule, left, right) ==
    LET r == RuleTable[rule]
    IN  IF r.backward
        THEN Undirected_can_combine(r.combinator, right, left)
                /\ Predicate(r.predicate, left, right)
        ELSE Undirected_can_combine(r.combinator, left, right)
                /\ Predicate(r.predicate, left, right)

\* a directional combine that never swaps its operands
Rule_combine_Unswapped(rule, left, right) ==
    Undirected_combine(RuleTable[rule].combinator, left, right)

\* ForwardCombinator.combine and BackwardCombinator.combine
Rule_combine(rule, left, right) ==
    LET r == RuleTable[rule]
    IN  IF r.backward
        THEN Undirected_combine(r.combinator, right, left)
        ELSE Undirected_combine(r.combinator, left, right)

Rule_raises(rule, left, right) ==
    LET r == RuleTable[rule]
    IN  IF r.backward
        THEN Undirected_raises(r.combinator, right, left)
        ELSE Undirected_raises(r.combinator, left, right)

(***************************************************************************)
(* The Combinators table of chart.py, made of MyCombinator.                *)
(***************************************************************************)
\* can_be_applied(function, arg)
can_be_applied(fn, arg) == can_unify(fn.arg, arg).ok

\* first(is_function, is_forward) + [can_be_applied], as make_predicate
\* evaluates it: the lambdas of first() all call the predicate the
\* comprehension ended on, is_forward, on the left category
forwardApplicationPredicates(left, right) ==
    /\ is_forward(left.dir)
    /\ is_forward(left.dir)
    /\ can_be_applied(left, right)

Combinators ==
    [FORWARD_APPLICATION |->
        [combinator |-> "FunctionApplication", backward |-> FALSE,
         predicate |-> "forwardApplicationPredicates", str |-> ">"],
     BACKWARD_APPLICATION |->
        [combinator |-> "FunctionApplication", backward |-> TRUE,
         predicate |-> "backwardOnly", str |-> "<"],
     FORWARD_COMPOSITION |->
        [combinator |-> "Composition", backward |-> FALSE,
         predicate |-> "forwardOnly", str |-> ">B"],
     BACKWARD_COMPOSITION |->
        [combinator |-> "Composition", backward |-> TRUE,
         predicate |-> "backwardOnly", str |-> "<B"],
     BACKWARD_BX |->
        [combinator |-> "Composition", backward |-> TRUE,
         predicate |-> "backwardBxConstraint", str |-> "<Bx"],
     FORWARD_SUBSTITUTION |->
        [combinator |-> "Substitution", backward |-> FALSE,
         predicate |-> "forwardSConstraint", str |-> ">S"],
     BACKWARD_SX |->
        [combinator |-> "Substitution", backward |-> TRUE,
         predicate |-> "backwardSxConstraint", str |-> "<Sx"],
     FORWARD_TYPE_RAISE |->
        [combinator |-> "TypeRaise", backward |-> FALSE,
         predicate |-> "forwardTConstraint", str |-> ">T"],
     BACKWARD_TYPE_RAISE |->
        [combinator |-> "TypeRaise", backward |-> TRUE,
         predicate |-> "backwardTConstraint", str |-> "<T"]]

MyPredicate(p, left, right) ==
    IF p = "forwardApplicationPredicates"
    THEN forwardApplicationPredicates(left, right)
    ELSE Predicate(p, left, right)

\* MyCombinator.switch_args_if_backwards
switch_args_if_backwards(rule, left, right) ==
    IF Combinators[rule].backward THEN <<right, left>> ELSE <<left, right>>

\* MyCombinator.can_combine
MyCombinator_can_combine(rule, left, right) ==
    LET r == Combinators[rule]
        args == switch_args_if_backwards(rule, left, right)
    IN  Undirected_can_combine(r.combinator, args[1], args[2])
            /\ MyPredicate(r.predicate, left, right)

MyCombinator_raises(rule, left, right) ==
    LET args == switch_args_if_backwards(rule, left, right)
    IN  Undirected_raises(Combinators[rule].combinator, args[1], args[2])

\* a combine that does not ask can_combine first
MyCombinator_combine_Unchecked(rule, left, right) ==
    LET args == switch_args_if_backwards(rule, left, right)
    IN  Undirected_combine(Combinators[rule].combinator, args[1], args[2])

\* MyCombinator.combine: [] unless can_combine, else the list of the
\* combinator's results
MyCombinator_combine(rule, left, right) ==
    IF ~MyCombinator_can_combine(rule, left, right) THEN <<>>
    ELSE LET args == switch_args_if_backwards(rule, left, right)
         IN  Undirected_combine(Combinators[rule].combinator,
                                args[1], args[2])

\* the rule sets of chart.py, in their order
ApplicationRuleSet == <<"ForwardApplication", "BackwardApplication">>

CompositionRuleSet ==
    <<"ForwardComposition", "BackwardComposition", "BackwardBx">>

SubstitutionRuleSet == <<"ForwardSubstitution", "BackwardSx">>

TypeRaiseRuleSet == <<"ForwardT", "BackwardT">>

\* a default rule set without the type-raising rules
DefaultRuleSet_NoTypeRaise ==
    ApplicationRuleSet \o CompositionRuleSet \o SubstitutionRuleSet

DefaultRuleSet ==
    ApplicationRuleSet \o CompositionRuleSet \o SubstitutionRuleSet
        \o TypeRaiseRuleSet

(***************************************************************************)
(* Semantic terms (nltk.sem.logic): constants, variables, applications and *)
(* abstractions; None is the absent term of an entry without semantics.    *)
(***************************************************************************)
None == [k |-> "none"]

ConstantExpression(name) == [k |-> "const", name |-> name]

VariableExpression(name) == [k |-> "var", name |-> name]

ApplicationExpression(fn, arg) == [k |-> "app", fn |-> fn, arg |-> arg]

LambdaExpression(variable, term) ==
    [k |-> "lam", variable |-> variable, term |-> term]

\* the outcome of a computation on terms that ended in an exception
Raised == [k |-> "raised"]

isExpression(t) == t.k \in {"const", "var", "app", "lam"}

isLambda(t) == t.k = "lam"

\* Expression.free(): the names of the free variables
RECURSIVE free(_)
free(t) ==
    CASE t.k = "var" -> {t.name}
      [] t.k = "app" -> free(t.fn) \cup free(t.arg)
      [] t.k = "lam" -> free(t.term) \ {t.variable}
      [] OTHER -> {}

\* every variable name of the term, bound ones included
RECURSIVE names(_)
names(t) ==
    CASE t.k = "var" -> {t.name}
      [] t.k = "app" -> names(t.fn) \cup names(t.arg)
      [] t.k = "lam" -> names(t.term) \cup {t.variable}
      [] OTHER -> {}

\* unique_variable: a name made from the pattern that is not in the set
RECURSIVE unique_variable(_, _)
unique_variable(pattern, ignore) ==
    IF pattern \in ignore THEN unique_variable(pattern \o "1", ignore)
    ELSE pattern

\* Expression.replace(variable, expression): a bound variable that occurs
\* free in the expression is renamed first (alpha conversion)
RECURSIVE replace(_, _, _)
replace(t, variable, expression) ==
    CASE t.k = "var" -> IF t.name = variable THEN expression ELSE t
      [] t.k = "app" ->
            ApplicationExpression(replace(t.fn, variable, expression),
                                  replace(t.arg, variable, expression))
      [] t.k = "lam" ->
            IF t.variable = variable THEN t
            ELSE IF t.variable \in free(expression)
                 THEN LET z == unique_variable(
                                  t.variable \o "1",
                                  names(t) \cup free(expression)
                                      \cup {variable})
                          renamed == replace(t.term, t.variable,
                                             VariableExpression(z))
                      IN  LambdaExpression(
                              z, replace(renamed, variable, expression))
                 ELSE LambdaExpression(
                          t.variable, replace(t.term, variable, expression))
      [] OTHER -> t

\* Expression.simplify(): beta reduction to normal form
RECURSIVE simplify(_)
simplify(t) ==
    CASE t.k = "app" ->
            LET fn == simplify(t.fn)
                arg == simplify(t.arg)
            IN  IF isLambda(fn)
                THEN simplify(replace(fn.term, fn.variable, arg))
                ELSE ApplicationExpression(fn, arg)
      [] t.k = "lam" -> LambdaExpression(t.variable, simplify(t.term))
      [] OTHER -> t

(***************************************************************************)
(* Composition of the semantic terms (ccg.logic).  Building an application *)
(* from something that is not an expression, or composing with a term of   *)
(* the wrong shape, fails an assertion.                                    *)
(***************************************************************************)
compute_function_semantics(fn, arg) ==
    IF ~(isExpression(fn) /\ isExpression(arg)) THEN Raised
    ELSE simplify(ApplicationExpression(fn, arg))

compute_composition_semantics(fn, arg) ==
    IF ~isLambda(arg) THEN Raised
    ELSE IF ~isExpression(fn) THEN Raised
    ELSE LambdaExpression(
             arg.variable, simplify(ApplicationExpression(fn, arg.term)))

compute_substitution_semantics(fn, arg) ==
    IF ~(isLambda(fn) /\ isLambda(fn.term)) THEN Raised
    ELSE IF ~isLambda(arg) THEN Raised
    ELSE LET new_argument ==
                 simplify(ApplicationExpression(
                              arg, VariableExpression(fn.variable)))
             new_term ==
                 simplify(ApplicationExpression(fn.term, new_argument))
         IN  LambdaExpression(fn.variable, new_term)

\* the abstraction \F.F(t) over a variable F that is not free in t
compute_type_raised_semantics(t) ==
    LET var == unique_variable("F", free(t))
    IN  LambdaExpression(
            var, ApplicationExpression(VariableExpression(var), t))

(***************************************************************************)
(* The semantics functions of chart.py (my_compute_...).  A call returns a *)
(* term or ends in an exception; the terms are objects, and the record     *)
(* keeps the operand as the call leaves it.                                *)
(***************************************************************************)
Returned(term, operand) == [term |-> term, exc |-> "", operand |-> operand]

Failed(name, operand) == [term |-> Raised, exc |-> name, operand |-> operand]

\* "while isinstance(core, LambdaExpression): parent = core; core = core.term"
RECURSIVE innermostTerm(_)
innermostTerm(t) == IF isLambda(t) THEN innermostTerm(t.term) ELSE t

\* "parent.term = core": the body of the innermost abstraction is replaced
RECURSIVE setInnermostTerm(_, _)
setInnermostTerm(t, core) ==
    IF isLambda(t)
    THEN LambdaExpression(t.variable, setInnermostTerm(t.term, core))
    ELSE core

\* my_compute_type_raised_semantics: F is applied to the innermost body,
\* which is written back into the operand, and the result abstracts F over
\* that application
my_compute_type_raised_semantics(t) ==
    LET core == innermostTerm(t)
    IN  IF ~isExpression(core) THEN Failed("AttributeError", t)
        ELSE LET var == unique_variable("F", free(core))
                 applied ==
                     ApplicationExpression(VariableExpression(var), core)
             IN  Returned(LambdaExpression(var, applied),
                          IF isLambda(t) THEN setInnermostTerm(t, applied)
                          ELSE t)

my_compute_function_semantics(fn, arg) ==
    IF ~(isExpression(fn) /\ isExpression(arg))
    THEN Failed("AssertionError", fn)
    ELSE Returned(simplify(ApplicationExpression(fn, arg)), fn)

my_compute_composition_semantics(fn, arg) ==
    IF ~isLambda(arg) THEN Failed("AssertionError", fn)
    ELSE IF ~isExpression(fn) THEN Failed("AssertionError", fn)
    ELSE Returned(LambdaExpression(
                      arg.variable,
                      simplify(ApplicationExpression(fn, arg.term))), fn)

my_compute_substitution_semantics(fn, arg) ==
    IF ~(isLambda(fn) /\ isLambda(fn.term)) THEN Failed("AssertionError", fn)
    ELSE IF ~isLambda(arg) THEN Failed("AssertionError", fn)
    ELSE LET new_argument ==
                 simplify(ApplicationExpression(
                              arg, VariableExpression(fn.variable)))
             new_term ==
                 simplify(ApplicationExpression(fn.term, new_argument))
         IN  Returned(LambdaExpression(fn.variable, new_term), fn)

\* my_compute_semantics(a, b, rule): the terms of the two tokens, swapped
\* for a backward rule; the message of the last branch concatenates a string
\* and the combinator object, which is a TypeError
my_compute_semantics(a, b, rule) ==
    LET r == Combinators[rule]
        fn == IF r.backward THEN b ELSE a
        arg == IF r.backward THEN a ELSE b
    IN  CASE r.combinator = "FunctionApplication" ->
                  my_compute_function_semantics(fn, arg)
          [] r.combinator = "Composition" ->
                  my_compute_composition_semantics(fn, arg)
          [] r.combinator = "Substitution" ->
                  my_compute_substitution_semantics(fn, arg)
          [] r.combinator = "TypeRaise" ->
                  my_compute_type_raised_semantics(fn)
          [] OTHER -> Failed("TypeError", fn)

(***************************************************************************)
(* Lexicons (ccg/lexicon.py).  A Token is a word with a category and an    *)
(* optional semantic term.  fromstring and LexiconBuilder keep the entries *)
(* in a defaultdict(list); CCGLexicon also takes a plain dict.             *)
(***************************************************************************)
Token(token, category, semantics) ==
    [token |-> token, categ |-> category, sem |-> semantics]

NoToken == Token("", PrimitiveCategory("", <<>>), None)

Prim(name) == PrimitiveCategory(name, <<>>)

Fwd == Direction("/", TRUE, TRUE)

Bwd == Direction("\\", TRUE, TRUE)

\* "\.," and "/.,": neither composition nor crossing
BwdNone == Direction("\\", FALSE, FALSE)

FwdNone == Direction("/", FALSE, FALSE)

CCGLexicon(kind, start, entries) ==
    [kind |-> kind, start |-> PrimitiveCategory(start, <<>>),
     entries |-> entries]

\* the: NP/N, I: NP, read: (S\NP)/NP, book: N
ScenarioA ==
    CCGLexicon("defaultdict", "S",
        ("the" :> <<Token("the",
                          FunctionalCategory(Prim("NP"), Prim("N"), Fwd),
                          None)>>)
     @@ ("I" :> <<Token("I", Prim("NP"), None)>>)
     @@ ("read" :> <<Token("read",
                           FunctionalCategory(
                               FunctionalCategory(Prim("S"), Prim("NP"), Bwd),
                               Prim("NP"), Fwd),
                           None)>>)
     @@ ("book" :> <<Token("book", Prim("N"), None)>>))

\* book: N {book}, the: NP/N {\x.x}, read: S/NP {\x.read(x)}
ScenarioC ==
    CCGLexicon("defaultdict", "S",
        ("book" :> <<Token("book", Prim("N"), ConstantExpression("book"))>>)
     @@ ("the" :> <<Token("the",
                          FunctionalCategory(Prim("NP"), Prim("N"), Fwd),
                          LambdaExpression("x", VariableExpression("x")))>>)
     @@ ("read" :> <<Token("read",
                           FunctionalCategory(Prim("S"), Prim("NP"), Fwd),
                           LambdaExpression("x",
                               ApplicationExpression(
                                   ConstantExpression("read"),
                                   VariableExpression("x"))))>>))

\* the lexicon of the parser tests, entries with restriction tags and the
\* coordination and: (var\.,var)/.,var
TestGrammar ==
    CCGLexicon("defaultdict", "S",
        ("the" :> <<Token("the",
                          FunctionalCategory(
                              PrimitiveCategory("NP", <<"sg">>),
                              PrimitiveCategory("N", <<"sg">>), Fwd),
                          None),
                    Token("the",
                          FunctionalCategory(
                              PrimitiveCategory("NP", <<"pl">>),
                              PrimitiveCategory("N", <<"pl">>), Fwd),
                          None)>>)
     @@ ("I" :> <<Token("I", Prim("NP"), None)>>)
     @@ ("book" :> <<Token("book", PrimitiveCategory("N", <<"sg">>), None)>>)
     @@ ("books" :> <<Token("books", PrimitiveCategory("N", <<"pl", "other">>),
                            None)>>)
     @@ ("and" :> <<Token("and",
                          FunctionalCategory(
                              FunctionalCategory(CCGVar(0), CCGVar(0),
                                                 BwdNone),
                              CCGVar(0), FwdNone),
                          None)>>)
     @@ ("read" :> <<Token("read",
                           FunctionalCategory(
                               FunctionalCategory(Prim("S"), Prim("NP"), Bwd),
                               Prim("NP"), Fwd),
                           None)>>))

\* I: NP {I}, love: NP {LOVE} | (S\NP)/NP {\t a.love(a,t)},
\* sleep: NP {SLEEP} | S\NP {\a.sleep(a)}
ScenarioB ==
    CCGLexicon("defaultdict", "S",
        ("I" :> <<Token("I", Prim("NP"), ConstantExpression("I"))>>)
     @@ ("love" :> <<Token("love", Prim("NP"), ConstantExpression("LOVE")),
                     Token("love",
                           FunctionalCategory(
                               FunctionalCategory(Prim("S"), Prim("NP"), Bwd),
                               Prim("NP"), Fwd),
                           LambdaExpression("t", LambdaExpression("a",
                               ApplicationExpression(
                                   ApplicationExpression(
                                       ConstantExpression("love"),
                                       VariableExpression("a")),
                                   VariableExpression("t")))))>>)
     @@ ("sleep" :> <<Token("sleep", Prim("NP"), ConstantExpression("SLEEP")),
                      Token("sleep",
                            FunctionalCategory(Prim("S"), Prim("NP"), Bwd),
                            LambdaExpression("a",
                                ApplicationExpression(
                                    ConstantExpression("sleep"),
                                    VariableExpression("a"))))>>))

\* Scenario C built with LexiconBuilder.entry, book entered without a
\* semantic term: the: NP/N {\x.x}, book: N, read: S/NP {\x.read(x)}
MixedSemantics ==
    [ScenarioC EXCEPT !.entries =
        ("book" :> <<Token("book", Prim("N"), None)>>) @@ @]

\* a word with two entries of one category and different terms:
\* bank: N {river} | N {money}, the: NP/N {\x.x}, start NP
Homonyms ==
    CCGLexicon("defaultdict", "NP",
        ("bank" :> <<Token("bank", Prim("N"), ConstantExpression("river")),
                     Token("bank", Prim("N"), ConstantExpression("money"))>>)
     @@ ("the" :> <<Token("the",
                          FunctionalCategory(Prim("NP"), Prim("N"), Fwd),
                          LambdaExpression("x", VariableExpression("x")))>>))

\* a: Y/(X/(X\N)) | (X\N)/N, b: N, start Y
ClosureGrammar ==
    CCGLexicon("defaultdict", "Y",
        ("a" :> <<Token("a",
                        FunctionalCategory(
                            Prim("Y"),
                            FunctionalCategory(
                                Prim("X"),
                                FunctionalCategory(Prim("X"), Prim("N"), Bwd),
                                Fwd),
                            Fwd),
                        None),
                  Token("a",
                        FunctionalCategory(
                            FunctionalCategory(Prim("X"), Prim("N"), Bwd),
                            Prim("N"), Fwd),
                        None)>>)
     @@ ("b" :> <<Token("b", Prim("N"), None)>>))

\* a CCGLexicon constructed on a plain dict of the same entries
PlainDict(lex) == [lex EXCEPT !.kind = "dict"]

Lexicons ==
    {ScenarioA, ScenarioB, ScenarioC, TestGrammar, PlainDict(ScenarioA),
     MixedSemantics, Homonyms, ClosureGrammar}

RuleSets == {DefaultRuleSet, ApplicationRuleSet, TypeRaiseRuleSet}

\* a word that no lexicon has an entry for
UnknownWord == "xyzzy"

Words(lex) == (DOMAIN lex.entries) \cup {UnknownWord}

\* the token lists of the parser tests that are longer than MaxLen
TestSentences(lex) ==
    IF lex.entries = ScenarioA.entries THEN {<<"I", "read", "the", "book">>}
    ELSE IF lex = TestGrammar
         THEN {<<"I", "read", "the", "book">>,
               <<"the", "book", "and", "book">>}
    ELSE {}

Sentences(lex) ==
    UNION {[1..n -> Words(lex)] : n \in 0..MaxLen} \cup TestSentences(lex)

\* CCGLexicon.categories: self._entries[word].  A defaultdict makes the
\* missing key, with the empty list; a dict raises KeyError.
categories_raises(lex, word) ==
    lex.kind = "dict" /\ word \notin DOMAIN lex.entries

categories(lex, word) ==
    IF word \in DOMAIN lex.entries THEN lex.entries[word] ELSE <<>>

\* the lexicon after categories(word)
\* a lookup that leaves a token of the start category under the missing key
categories_lexicon_Filling(lex, word) ==
    IF word \in DOMAIN lex.entries \/ lex.kind = "dict" THEN lex
    ELSE [lex EXCEPT !.entries =
                (word :> <<Token(word, lex.start, None)>>) @@ lex.entries]

categories_lexicon(lex, word) ==
    IF word \in DOMAIN lex.entries \/ lex.kind = "dict" THEN lex
    ELSE [lex EXCEPT !.entries = (word :> <<>>) @@ lex.entries]

(***************************************************************************)
(* Chart edges (ccg/chart.py) and the insertion of nltk's Chart.           *)
(***************************************************************************)
CCGEdge(span, categ, rule) ==
    [kind |-> "edge", span |-> span, categ |-> categ, rule |-> rule,
     token |-> NoToken, leaf |-> ""]

CCGLeafEdge(p, token, leaf) ==
    [kind |-> "leaf", span |-> <<p, p + 1>>, categ |-> token.categ,
     rule |-> "", token |-> token, leaf |-> leaf]

\* the key two edges are compared by: the class and (span, categ, rule) of a
\* CCGEdge, (pos, token.categ(), leaf) of a CCGLeafEdge
comparison_key(e) == <<e.kind, e.span, e.categ, e.rule, e.leaf>>

Chart(E, C) == [edges |-> E, cpls |-> C]

\* the position of the edge with this key in the chart, 0 if there is none
EdgeIndex(E, e) ==
    IF \E i \in 1..Len(E) : comparison_key(E[i]) = comparison_key(e)
    THEN CHOOSE i \in 1..Len(E) : comparison_key(E[i]) = comparison_key(e)
    ELSE 0

InSeq(x, sq) == \E i \in 1..Len(sq) : sq[i] = x

\* an insert that appends the edge whether or not the chart holds it
insert_AlwaysNew(ch, e, cpl) ==
    Chart(Append(ch.edges, e), Append(ch.cpls, <<cpl>>))

\* Chart.insert(edge, child_pointer_list): a new edge is appended; the
\* child-pointer list is appended to the edge's lists if it is not there
insert(ch, e, cpl) ==
    LET i == EdgeIndex(ch.edges, e)
    IN  IF i = 0
        THEN Chart(Append(ch.edges, e), Append(ch.cpls, <<cpl>>))
        ELSE IF InSeq(cpl, ch.cpls[i]) THEN ch
        ELSE Chart(ch.edges, [ch.cpls EXCEPT ![i] = Append(@, cpl)])

\* Chart.select(span=...): the edges over the span, in insertion order
select(E, span) ==
    SelectSeq([i \in 1..Len(E) |-> i], LAMBDA i : E[i].span = span)

\* the edges a rule's combine results give, inserted one after the other
RECURSIVE InsertAll(_, _, _, _, _, _)
InsertAll(ch, res, k, span, rule, cpl) ==
    IF k > Len(res) THEN ch
    ELSE InsertAll(insert(ch, CCGEdge(span, res[k], rule), cpl),
                   res, k + 1, span, rule, cpl)

\* a binary rule whose new edge has the span of the left edge
BinaryCombinatorRule_apply_LeftSpan(ch, rule, l, r) ==
    LET left == ch.edges[l]
        right == ch.edges[r]
    IN  IF left.span[2] # right.span[1] THEN ch
        ELSE IF Rule_can_combine(rule, left.categ, right.categ)
             THEN InsertAll(ch, Rule_combine(rule, left.categ, right.categ),
                            1, left.span, rule, <<l, r>>)
        ELSE ch

\* BinaryCombinatorRule.apply: the new edge spans both edges
BinaryCombinatorRule_apply(ch, rule, l, r) ==
    LET left == ch.edges[l]
        right == ch.edges[r]
    IN  IF left.span[2] # right.span[1] THEN ch
        ELSE IF Rule_can_combine(rule, left.categ, right.categ)
             THEN InsertAll(ch, Rule_combine(rule, left.categ, right.categ),
                            1, <<left.span[1], right.span[2]>>, rule,
                            <<l, r>>)
        ELSE ch

\* a forward type-raise rule that records both edges as the children
ForwardTypeRaiseRule_apply_BothChildren(ch, l, r) ==
    LET left == ch.edges[l]
        right == ch.edges[r]
    IN  IF left.span[2] # right.span[1] THEN ch
        ELSE InsertAll(ch, Rule_combine("ForwardT", left.categ, right.categ),
                       1, left.span, "ForwardT", <<l, r>>)

\* ForwardTypeRaiseRule.apply: combine is called without can_combine; the
\* new edge has the left edge's span and the left edge as its only child
ForwardTypeRaiseRule_apply(ch, l, r) ==
    LET left == ch.edges[l]
        right == ch.edges[r]
    IN  IF left.span[2] # right.span[1] THEN ch
        ELSE InsertAll(ch, Rule_combine("ForwardT", left.categ, right.categ),
                       1, left.span, "ForwardT", <<l>>)

\* BackwardTypeRaiseRule.apply: the new edge has the right edge's span and
\* the right edge as its only child
BackwardTypeRaiseRule_apply(ch, l, r) ==
    LET left == ch.edges[l]
        right == ch.edges[r]
    IN  IF left.span[2] # right.span[1] THEN ch
        ELSE InsertAll(ch, Rule_combine("BackwardT", left.categ, right.categ),
                       1, right.span, "BackwardT", <<r>>)

\* rule.apply(chart, lexicon, left, right)
apply(ch, rule, l, r) ==
    CASE rule = "ForwardT" -> ForwardTypeRaiseRule_apply(ch, l, r)
      [] rule = "BackwardT" -> BackwardTypeRaiseRule_apply(ch, l, r)
      [] OTHER -> BinaryCombinatorRule_apply(ch, rule, l, r)

\* rule.apply ends in an exception
apply_raises(ch, rule, l, r) ==
    Rule_raises(rule, ch.edges[l].categ, ch.edges[r].categ)

\* "for rule in rules": the chart after the rules from the k-th on were
\* applied to the pair, and whether one of them raised
RECURSIVE ApplyRules(_, _, _, _, _)
ApplyRules(ch, rs, k, l, r) ==
    IF k > Len(rs) THEN [chart |-> ch, raised |-> FALSE]
    ELSE IF apply_raises(ch, rs[k], l, r) THEN [chart |-> ch, raised |-> TRUE]
    ELSE ApplyRules(apply(ch, rs[k], l, r), rs, k + 1, l, r)

(***************************************************************************)
(* The loops of chart_parse.  A position is the span length, the start,    *)
(* the split and how far the two iterators over the span lists got; the    *)
(* iterators run over the lists as they are when they are advanced, with   *)
(* the edges appended meanwhile.                                           *)
(***************************************************************************)
NoPos == [span |-> 0, start |-> 0, part |-> 0, left |-> 0, right |-> 0]

Pos(span, start, part, left, right) ==
    [span |-> span, start |-> start, part |-> part, left |-> left,
     right |-> right]

LeftSpan(p) == <<p.start, p.start + p.part>>

RightSpan(p) == <<p.start + p.part, p.start + p.span>>

\* loops in which the iterator over the right list starts over when it is
\* exhausted, instead of the left one moving on
RECURSIVE NextPair_RightStartsOver(_, _, _)
NextPair_RightStartsOver(E, n, p) ==
    IF p.span > n THEN p
    ELSE IF p.start > n - p.span
         THEN NextPair_RightStartsOver(E, n, Pos(p.span + 1, 0, 1, 1, 1))
    ELSE IF p.part >= p.span
         THEN NextPair_RightStartsOver(E, n,
                                       Pos(p.span, p.start + 1, 1, 1, 1))
    ELSE IF p.left > Len(select(E, LeftSpan(p)))
              \/ Len(select(E, RightSpan(p))) = 0
         THEN NextPair_RightStartsOver(E, n,
                                       Pos(p.span, p.start, p.part + 1, 1, 1))
    ELSE IF p.right > Len(select(E, RightSpan(p)))
         THEN Pos(p.span, p.start, p.part, p.left, 1)
    ELSE p

\* the first pair of edges at or after p in the order of the loops; a
\* position with span > n when the loops are over
RECURSIVE NextPair(_, _, _)
NextPair(E, n, p) ==
    IF p.span > n THEN p
    ELSE IF p.start > n - p.span
         THEN NextPair(E, n, Pos(p.span + 1, 0, 1, 1, 1))
    ELSE IF p.part >= p.span
         THEN NextPair(E, n, Pos(p.span, p.start + 1, 1, 1, 1))
    ELSE IF p.left > Len(select(E, LeftSpan(p)))
         THEN NextPair(E, n, Pos(p.span, p.start, p.part + 1, 1, 1))
    ELSE IF p.right > Len(select(E, RightSpan(p)))
         THEN NextPair(E, n, Pos(p.span, p.start, p.part, p.left + 1, 1))
    ELSE p

(***************************************************************************)
(* Derivation trees (CCGChart._trees) and their semantics.                 *)
(***************************************************************************)
Tree(token, categ, sem, rule, children) ==
    [token |-> token, categ |-> categ, sem |-> sem, rule |-> rule,
     children |-> children]

\* a directional rule built by the caller over a combinator of their own
CustomRule == "Custom"

\* edge.rule(): a rule of combinator.py or the caller's
RuleOf(rule) ==
    IF rule = CustomRule
    THEN [combinator |-> "Custom", backward |-> FALSE,
          predicate |-> "forwardOnly", str |-> ">Custom"]
    ELSE RuleTable[rule]

\* a compute_semantics that treats a composition as an application
compute_semantics_NoComposition(children, edge) ==
    IF \E i \in 1..Len(children) : children[i].sem = Raised THEN Raised
    ELSE IF children[1].sem = None THEN None
    ELSE IF Len(children) = 2
         THEN LET backward == RuleTable[edge.rule].backward
                  fn == IF backward THEN children[2].sem
                        ELSE children[1].sem
                  arg == IF backward THEN children[1].sem
                         ELSE children[2].sem
              IN  compute_function_semantics(fn, arg)
    ELSE compute_type_raised_semantics(children[1].sem)

\* a compute_semantics that takes the left child's term as the function-term
\* whatever the rule
compute_semantics_NoSwap(children, edge) ==
    IF \E i \in 1..Len(children) : children[i].sem = Raised THEN Raised
    ELSE IF children[1].sem = None THEN None
    ELSE IF Len(children) = 2
         THEN LET fn == children[1].sem
                  arg == children[2].sem
                  combinator == RuleTable[edge.rule].combinator
              IN  CASE combinator = "FunctionApplication" ->
                            compute_function_semantics(fn, arg)
                    [] combinator = "Composition" ->
                            compute_composition_semantics(fn, arg)
                    [] combinator = "Substitution" ->
                            compute_substitution_semantics(fn, arg)
                    [] OTHER -> Raised
    ELSE compute_type_raised_semantics(children[1].sem)

\* compute_semantics(children, edge)
compute_semantics(children, edge) ==
    IF \E i \in 1..Len(children) : children[i].sem = Raised THEN Raised
    ELSE IF children[1].sem = None THEN None
    ELSE IF Len(children) = 2
         THEN LET backward == RuleOf(edge.rule).backward
                  fn == IF backward THEN children[2].sem
                        ELSE children[1].sem
                  arg == IF backward THEN children[1].sem
                         ELSE children[2].sem
                  combinator == RuleOf(edge.rule).combinator
              IN  CASE combinator = "FunctionApplication" ->
                            compute_function_semantics(fn, arg)
                    [] combinator = "Composition" ->
                            compute_composition_semantics(fn, arg)
                    [] combinator = "Substitution" ->
                            compute_substitution_semantics(fn, arg)
                    [] OTHER -> Raised
    ELSE compute_type_raised_semantics(children[1].sem)

\* the class of the exception compute_semantics ends in, "" when it returns:
\* an assertion of a semantics function, or the TypeError of the last
\* branch, whose message concatenates a string and the combinator object
compute_semantics_exception(children, edge) ==
    IF compute_semantics(children, edge) # Raised THEN ""
    ELSE IF /\ Len(children) = 2
            /\ RuleOf(edge.rule).combinator
                   \notin {"FunctionApplication", "Composition",
                           "Substitution"}
         THEN "TypeError"
    ELSE "AssertionError"

\* the tree of a leaf edge: the token over the word at the edge's position
LeafTree(e) ==
    Tree(<<e.token.token>>, e.token.categ, e.token.sem, "Leaf",
         <<Tree(<<tokens[e.span[1] + 1]>>, e.token.categ, e.token.sem,
                "Word", <<>>)>>)

RECURSIVE trees(_)
RECURSIVE TreesOfCpls(_, _)

\* itertools.product of the children's tree lists, a node for each choice
TreesOfCpl(e, cpl) ==
    LET edge == edges[e]
        words == SubSeq(tokens, edge.span[1] + 1, edge.span[2])
        node(children) ==
            Tree(words, edge.categ, compute_semantics(children, edge),
                 RuleTable[edge.rule].str, children)
        c1 == trees(cpl[1])
    IN  IF Len(cpl) = 1
        THEN [j \in 1..Len(c1) |-> node(<<c1[j]>>)]
        ELSE LET c2 == trees(cpl[2])
             IN  [j \in 1..(Len(c1) * Len(c2)) |->
                    node(<<c1[((j - 1) \div Len(c2)) + 1],
                           c2[((j - 1) % Len(c2)) + 1]>>)]

\* an extraction that follows only one child-pointer list of an edge
TreesOfCpls_FirstOnly(e, k) ==
    IF k > Len(cpls[e]) THEN <<>>
    ELSE TreesOfCpl(e, cpls[e][k])

TreesOfCpls(e, k) ==
    IF k > Len(cpls[e]) THEN <<>>
    ELSE TreesOfCpl(e, cpls[e][k]) \o TreesOfCpls(e, k + 1)

trees(e) ==
    IF edges[e].kind = "leaf" THEN <<LeafTree(edges[e])>>
    ELSE TreesOfCpls(e, 1)

\* Tree.leaves(): the words, left to right
RECURSIVE leaves(_)
RECURSIVE LeavesOf(_, _)
LeavesOf(children, k) ==
    IF k > Len(children) THEN <<>>
    ELSE leaves(children[k]) \o LeavesOf(children, k + 1)

leaves(t) == IF t.rule = "Word" THEN t.token ELSE LeavesOf(t.children, 1)

\* a parses that takes every edge over the whole input, whatever its category
RootEdges_AnyCategory ==
    SelectSeq([i \in 1..Len(edges) |-> i],
              LAMBDA i : edges[i].span = <<0, Len(tokens)>>)

\* Chart.parses(root): the trees of the edges over the whole input whose
\* category is the root, edge after edge in insertion order
RootEdges ==
    SelectSeq([i \in 1..Len(edges) |-> i],
              LAMBDA i : /\ edges[i].span = <<0, Len(tokens)>>
                         /\ edges[i].categ = lexicon.start)

RECURSIVE TreesOfEdges(_, _)
TreesOfEdges(es, k) ==
    IF k > Len(es) THEN <<>>
    ELSE trees(es[k]) \o TreesOfEdges(es, k + 1)

parses == TreesOfEdges(RootEdges, 1)

(***************************************************************************)
(* chart_parse as a state machine.                                         *)
(***************************************************************************)
NoRun == [edges |-> <<>>, cpls |-> <<>>, result |-> <<>>, pc |-> "none"]

IdleCombine ==
    /\ function = Prim("X")
    /\ argument = Prim("X")
    /\ op = "idle"
    /\ can = FALSE
    /\ out = <<>>
    /\ raised = FALSE
    /\ exc = ""
    /\ builders = <<>>
    /\ built = <<>>

\* where chart_parse goes once the leaf edges are in: the first pair of the
\* sweep, or the output if the sweep has no pair
AfterLeaves(E, n) ==
    LET p == NextPair(E, n, Pos(2, 0, 1, 1, 1))
    IN  IF p.span > n THEN [pc |-> "parses", pos |-> NoPos]
        ELSE [pc |-> "sweep", pos |-> p]

Init ==
    /\ IdleCombine
    /\ lexicon \in Lexicons
    /\ rules \in RuleSets
    /\ tokens \in Sentences(lexicon)
    /\ edges = <<>>
    /\ cpls = <<>>
    /\ pc = IF Len(tokens) = 0 THEN "parses" ELSE "leaves"
    /\ index = 0
    /\ pos = NoPos
    /\ result = <<>>
    /\ run = 1
    /\ first = NoRun

\* the leaf edges of the tokens of one word, one after the other
RECURSIVE InsertLeafEdges(_, _, _, _, _)
InsertLeafEdges(ch, toks, k, i, leaf) ==
    IF k > Len(toks) THEN ch
    ELSE InsertLeafEdges(insert(ch, CCGLeafEdge(i, toks[k], leaf), <<>>),
                         toks, k + 1, i, leaf)

\* one round of "for index in range(chart.num_leaves())": the lexicon is
\* asked for the word's tokens and a leaf edge is inserted for each
InsertLeaves ==
    /\ pc = "leaves"
    /\ index < Len(tokens)
    /\ LET word == tokens[index + 1]
       IN  IF categories_raises(lexicon, word)
           THEN /\ pc' = "error"
                /\ UNCHANGED <<lexicon, edges, cpls, index, pos>>
           ELSE LET ch == InsertLeafEdges(Chart(edges, cpls),
                                          categories(lexicon, word), 1,
                                          index, word)
                    after == AfterLeaves(ch.edges, Len(tokens))
                IN  /\ lexicon' = categories_lexicon(lexicon, word)
                    /\ edges' = ch.edges
                    /\ cpls' = ch.cpls
                    /\ index' = index + 1
                    /\ IF index + 1 < Len(tokens)
                       THEN UNCHANGED <<pc, pos>>
                       ELSE pc' = after.pc /\ pos' = after.pos
    /\ UNCHANGED <<rules, tokens, result, run, first>>
    /\ UNCHANGED combVars

\* one round of "for right in chart.select(...)": every rule is applied to
\* the pair, and the iterators move on over the lists as they are now
Combine ==
    /\ pc = "sweep"
    /\ LET l == select(edges, LeftSpan(pos))[pos.left]
           r == select(edges, RightSpan(pos))[pos.right]
           res == ApplyRules(Chart(edges, cpls), rules, 1, l, r)
           p == NextPair(res.chart.edges, Len(tokens),
                         [pos EXCEPT !.right = @ + 1])
       IN  /\ edges' = res.chart.edges
           /\ cpls' = res.chart.cpls
           /\ IF res.raised
              THEN pc' = "error" /\ UNCHANGED pos
              ELSE IF p.span > Len(tokens)
                   THEN pc' = "parses" /\ pos' = NoPos
                   ELSE pc' = "sweep" /\ pos' = p
    /\ UNCHANGED <<lexicon, rules, tokens, index, result, run, first>>
    /\ UNCHANGED combVars

\* "return chart.parses(lexicon.start())", the trees taken by the caller
Parses ==
    /\ pc = "parses"
    /\ LET ts == parses
       IN  IF \E i \in 1..Len(ts) : ts[i].sem = Raised
           THEN pc' = "error" /\ UNCHANGED result
           ELSE pc' = "done" /\ result' = ts
    /\ UNCHANGED <<lexicon, rules, tokens, edges, cpls, index, pos, run,
                   first>>
    /\ UNCHANGED combVars

\* the caller calls chart_parse again, with the same lexicon object, the
\* same tokens and the same rules
Again ==
    /\ pc \in {"done", "error"}
    /\ run = 1
    /\ first' = [edges |-> edges, cpls |-> cpls, result |-> result,
                 pc |-> pc]
    /\ run' = 2
    /\ edges' = <<>>
    /\ cpls' = <<>>
    /\ pc' = IF Len(tokens) = 0 THEN "parses" ELSE "leaves"
    /\ index' = 0
    /\ pos' = NoPos
    /\ result' = <<>>
    /\ UNCHANGED <<lexicon, rules, tokens>>
    /\ UNCHANGED combVars

Next == InsertLeaves \/ Combine \/ Parses \/ Again

Spec == Init /\ [][Next]_vars

(***************************************************************************)
(* The categories the combinators are tried on: every category of depth    *)
(* at most one over the primitives and one variable, with every direction, *)
(* and the categories of depth two whose inner slash carries no flags.     *)
(***************************************************************************)
PrimNames == <<"X", "Y", "Z", "W">>

Prims == {PrimitiveCategory(PrimNames[i], <<>>) : i \in 1..NumPrims}

Atoms == Prims \cup {CCGVar(0)}

PlainDirs == {Direction(s, TRUE, TRUE) : s \in {"/", "\\"}}

Dirs == PlainDirs
        \cup {Direction(s, TRUE, FALSE) : s \in {"/", "\\"}}
        \cup {Direction(s, FALSE, FALSE) : s \in {"/", "\\"}}

Funs(R, A, D) == {FunctionalCategory(r, a, d) : r \in R, a \in A, d \in D}

Cats1 == Atoms \cup Funs(Atoms, Atoms, Dirs)

Cats2 == Cats1
         \cup Funs(Funs(Atoms, Atoms, PlainDirs), Atoms, Dirs)
         \cup Funs(Atoms, Funs(Atoms, Atoms, PlainDirs), Dirs)

(***************************************************************************)
(* The combinators as operations on a pair of categories.                  *)
(***************************************************************************)
InitCombine ==
    /\ function \in Cats2
    /\ argument \in Cats1
    /\ op = "none"
    /\ can = FALSE
    /\ out = <<>>
    /\ raised = FALSE
    /\ exc = ""
    /\ builders = <<>>
    /\ built = <<>>
    /\ lexicon = [kind |-> "dict", start |-> PrimitiveCategory("S", <<>>),
                  entries |-> <<>>]
    /\ rules = <<>>
    /\ tokens = <<>>
    /\ edges = <<>>
    /\ cpls = <<>>
    /\ pc = "idle"
    /\ index = 0
    /\ pos = NoPos
    /\ result = <<>>
    /\ run = 0
    /\ first = NoRun

Call(name, c, o, r) ==
    /\ op = "none"
    /\ op' = name
    /\ can' = c
    /\ out' = o
    /\ raised' = r
    /\ UNCHANGED <<function, argument, exc, builders, built>>
    /\ UNCHANGED chartVars

ApplyFunctionApplication ==
    Call("FunctionApplication",
         FunctionApplication_can_combine(function, argument),
         FunctionApplication_combine(function, argument), FALSE)

ApplyComposition ==
    Call("Composition",
         Composition_can_combine(function, argument),
         Composition_combine(function, argument), FALSE)

ApplySubstitution ==
    Call("Substitution",
         Substitution_can_combine(function, argument),
         Substitution_combine(function, argument),
         Substitution_raises(function, argument))

ApplyTypeRaise ==
    Call("TypeRaise",
         TypeRaise_can_combine(argument, function),
         TypeRaise_combine(argument, function), FALSE)

NextCombine ==
    \/ ApplyFunctionApplication
    \/ ApplyComposition
    \/ ApplySubstitution
    \/ ApplyTypeRaise

SpecCombine == InitCombine /\ [][NextCombine]_vars

(***************************************************************************)
(* The directional rules as operations on a pair (left, right), held in    *)
(* `function` and `argument`.                                              *)
(***************************************************************************)
\* primitive and functional categories, and those with a functional result
CatsR == Cats1 \cup Funs(Funs(Prims, Atoms, PlainDirs), Prims, PlainDirs)

InitRule ==
    /\ function \in CatsR
    /\ argument \in CatsR
    /\ op = "none"
    /\ can = FALSE
    /\ out = <<>>
    /\ raised = FALSE
    /\ exc = ""
    /\ builders = <<>>
    /\ built = <<>>
    /\ lexicon = [kind |-> "dict", start |-> PrimitiveCategory("S", <<>>),
                  entries |-> <<>>]
    /\ rules = <<>>
    /\ tokens = <<>>
    /\ edges = <<>>
    /\ cpls = <<>>
    /\ pc = "idle"
    /\ index = 0
    /\ pos = NoPos
    /\ result = <<>>
    /\ run = 0
    /\ first = NoRun

\* a rule of combinator.py: can_combine(left, right), combine(left, right)
ApplyDirectional ==
    \E rule \in DOMAIN RuleTable :
        Call(rule, Rule_can_combine(rule, function, argument),
             Rule_combine(rule, function, argument),
             Rule_raises(rule, function, argument))

\* a rule of the Combinators table of chart.py
ApplyMyCombinator ==
    \E rule \in DOMAIN Combinators :
        Call(rule, MyCombinator_can_combine(rule, function, argument),
             MyCombinator_combine(rule, function, argument),
             MyCombinator_raises(rule, function, argument))

NextRule == ApplyDirectional \/ ApplyMyCombinator

SpecRule == InitRule /\ [][NextRule]_vars

(***************************************************************************)
(* The semantics functions as operations on a pair of terms: names in the  *)
(* function position of an application are the constant f or the free      *)
(* variable F, abstractions bind x or y, up to two deep.                   *)
(***************************************************************************)
SemTerms ==
    LET atoms == {ConstantExpression("j"), VariableExpression("x"),
                  VariableExpression("F")}
        heads == {ConstantExpression("f"), VariableExpression("F")}
        bodies == atoms \cup {ApplicationExpression(h, t) :
                                 h \in heads, t \in atoms}
        abstractions(B) ==
            {LambdaExpression(v, b) : v \in {"x", "y"}, b \in B}
    IN  {None} \cup bodies \cup abstractions(bodies)
            \cup abstractions(abstractions(atoms))

InitSem ==
    /\ function \in SemTerms
    /\ argument \in SemTerms
    /\ op = "none"
    /\ can = FALSE
    /\ out = <<>>
    /\ raised = FALSE
    /\ exc = ""
    /\ builders = <<>>
    /\ built = <<>>
    /\ lexicon = [kind |-> "dict", start |-> PrimitiveCategory("S", <<>>),
                  entries |-> <<>>]
    /\ rules = <<>>
    /\ tokens = <<>>
    /\ edges = <<>>
    /\ cpls = <<>>
    /\ pc = "idle"
    /\ index = 0
    /\ pos = NoPos
    /\ result = <<>>
    /\ run = 1
    /\ first = NoRun

\* my_compute_semantics(a, b, rule) on two tokens with these terms
ApplyMyComputeSemantics ==
    \E rule \in DOMAIN Combinators :
        LET res == my_compute_semantics(function, argument, rule)
        IN  /\ op = "none"
            /\ op' = rule
            /\ out' = IF res.exc = "" THEN <<res.term>> ELSE <<>>
            /\ raised' = (res.exc # "")
            /\ exc' = res.exc
            /\ function' = IF Combinators[rule].backward THEN function
                           ELSE res.operand
            /\ argument' = IF Combinators[rule].backward THEN res.operand
                           ELSE argument
            /\ UNCHANGED <<can, builders, built>>
            /\ UNCHANGED chartVars

\* compute_semantics(children, edge) on a node with two children that have
\* these terms, the edge made by a binary rule over a rule of combinator.py
\* or over the caller's own
ApplyComputeSemantics ==
    \E rule \in (DOMAIN RuleTable) \cup {CustomRule} :
        LET children == <<[sem |-> function], [sem |-> argument]>>
            edge == [rule |-> rule]
            e == compute_semantics_exception(children, edge)
        IN  /\ op = "none"
            /\ op' = rule
            /\ out' = IF e = "" THEN <<compute_semantics(children, edge)>>
                      ELSE <<>>
            /\ raised' = (e # "")
            /\ exc' = e
            /\ UNCHANGED <<function, argument, can, builders, built>>
            /\ UNCHANGED chartVars

NextSem == ApplyMyComputeSemantics \/ ApplyComputeSemantics

SpecSem == InitSem /\ [][NextSem]_vars

(***************************************************************************)
(* LexiconBuilder (ccg/lexicon_builder.py).  A PrimitiveCategoryBuilder    *)
(* holds one PrimitiveCategory object; what is built from the builder      *)
(* holds that object, not a copy.  A built thing is recorded with the      *)
(* builders whose category it holds and the tags they had at that moment.  *)
(***************************************************************************)
\* "S, NP, N = lb.primitive_categories(...)": the builders the tests tag
BuilderNames == {"NP", "N"}

\* the subscripts of builder[...]: the strings "sg" and "pl", and the tuple
\* ("pl", "other")
Keys ==
    {[kind |-> "str", chars |-> <<"s", "g">>],
     [kind |-> "str", chars |-> <<"p", "l">>],
     [kind |-> "tuple", items |-> <<"pl", "other">>]}

\* "*restrs": a string unpacks into its characters, a tuple into its items
Unpack(key) == IF key.kind = "str" THEN key.chars ELSE key.items

\* PrimitiveCategoryBuilder.restrictions: "self.category._restrs += restrs"
restrictions(R, b, rs) == [R EXCEPT ![b] = @ \o rs]

\* PrimitiveCategoryBuilder.__getitem__: "self.restrictions(*restrs)"
getitem(R, b, key) == restrictions(R, b, Unpack(key))

Built(kind, prims) ==
    [kind |-> kind, prims |-> prims,
     tags |-> [i \in 1..Len(prims) |-> builders[prims[i]]]]

InitBuilder ==
    /\ builders = [b \in BuilderNames |-> <<>>]
    /\ built = <<>>
    /\ function = ""
    /\ argument = ""
    /\ op = "none"
    /\ can = FALSE
    /\ out = <<>>
    /\ raised = FALSE
    /\ exc = ""
    /\ lexicon = [kind |-> "defaultdict",
                  start |-> PrimitiveCategory("S", <<>>),
                  entries |-> <<>>]
    /\ rules = <<>>
    /\ tokens = <<>>
    /\ edges = <<>>
    /\ cpls = <<>>
    /\ pc = "idle"
    /\ index = 0
    /\ pos = NoPos
    /\ result = <<>>
    /\ run = 1
    /\ first = NoRun

\* builder[key]: the tags are appended to the builder's category, and the
\* builder itself is what the expression gives
GetItem ==
    \E b \in BuilderNames, key \in Keys :
        /\ Len(builders[b]) + Len(Unpack(key)) <= MaxTags
        /\ builders' = getitem(builders, b, key)
        /\ op' = "__getitem__"
        /\ function' = b
        /\ argument' = key
        /\ out' = builders'[b]
        /\ UNCHANGED <<can, raised, exc, built>>
        /\ UNCHANGED chartVars

BuilderCall(name, kind, prims) ==
    /\ Len(built) < MaxBuilt
    /\ built' = Append(built, Built(kind, prims))
    /\ op' = name
    /\ function' = prims[1]
    /\ argument' = prims[Len(prims)]
    /\ UNCHANGED <<can, out, raised, exc, builders>>
    /\ UNCHANGED chartVars

\* "a << b" and "a >> b": PrimitiveCategoryBuilder.function gives
\* FunctionalCategory(self.category, argument.category, direction)
Function ==
    \E b \in BuilderNames, a \in BuilderNames :
        BuilderCall("function", "category", <<b, a>>)

\* LexiconBuilder.family(ident, builder)
Family == \E b \in BuilderNames : BuilderCall("family", "family", <<b>>)

\* LexiconBuilder.entry(ident, builder): Token(ident, builder.category)
Entry == \E b \in BuilderNames : BuilderCall("entry", "entry", <<b>>)

NextBuilder == GetItem \/ Function \/ Family \/ Entry

SpecBuilder == InitBuilder /\ [][NextBuilder]_vars

(***************************************************************************)
(* Properties of the undirected combinators.                               *)
(***************************************************************************)
\* the variable with this id occurs in the category
RECURSIVE Occurs(_, _)
Occurs(id, c) ==
    IF is_var(c) THEN c.id = id
    ELSE IF is_function(c) THEN Occurs(id, c.res) \/ Occurs(id, c.arg)
    ELSE FALSE

\* the category holds no variable at all
RECURSIVE Concrete(_)
Concrete(c) ==
    IF is_var(c) THEN FALSE
    ELSE IF is_function(c) THEN Concrete(c.res) /\ Concrete(c.arg)
    ELSE TRUE

\* r is pattern p with the category c at every place where p has the
\* variable id, and is p everywhere else
RECURSIVE Instance(_, _, _, _)
Instance(p, r, id, c) ==
    IF is_var(p) /\ p.id = id THEN r = c
    ELSE IF is_function(p)
         THEN /\ is_function(r)
              /\ r.dir = p.dir
              /\ Instance(p.res, r.res, id, c)
              /\ Instance(p.arg, r.arg, id, c)
    ELSE r = p

\* C5: a functor whose argument is a variable V applies to every concrete
\* category C: the unification succeeds and the one result is the functor's
\* result with C at every occurrence of V, no occurrence of V being left.
C5_VariableArgumentBinds ==
    (op = "FunctionApplication" /\ is_function(function)
        /\ is_var(function.arg) /\ Concrete(argument))
    => /\ can
       /\ Len(out) = 1
       /\ Instance(function.res, out[1], function.arg.id, argument)
       /\ ~Occurs(function.arg.id, out[1])

\* the coordination category (V\V)/V applied to a primitive C gave C\C
C5_Witness ==
    /\ op = "FunctionApplication"
    /\ is_function(function)
    /\ is_var(function.arg)
    /\ function.res = FunctionalCategory(function.arg, function.arg,
                                         Direction("\\", TRUE, TRUE))
    /\ is_primitive(argument)
    /\ out = <<FunctionalCategory(argument, argument,
                                  Direction("\\", TRUE, TRUE))>>

\* C8: FunctionApplication.can_combine(f, a) is true exactly when f is
\* functional and f.arg unifies with a; then combine yields the one category
\* substitute(f.res, subst), and otherwise it yields nothing.
C8_ApplicationIff ==
    op = "FunctionApplication"
    => /\ can = (is_function(function)
                    /\ can_unify(function.arg, argument).ok)
       /\ can => out = <<substitute(function.res,
                             can_unify(function.arg, argument).subs)>>
       /\ ~can => out = <<>>

\* application bound a variable of the functor: the result is not f.res itself
C8_Witness ==
    /\ op = "FunctionApplication"
    /\ can
    /\ Len(out) = 1
    /\ out[1] # function.res
    /\ is_function(argument)

\* C9: Composition.can_combine holds exactly when both operands are
\* functional, both directions composable and function.arg unifies with
\* argument.res; every result is functional with result
\* substitute(function.res), argument substitute(argument.arg) and the
\* direction of the argument operand.
C9_CompositionIff ==
    op = "Composition"
    => LET both == is_function(function) /\ is_function(argument)
           ok == /\ both
                 /\ can_compose(function.dir) /\ can_compose(argument.dir)
                 /\ can_unify(function.arg, argument.res).ok
       IN  /\ can = ok
           /\ Len(out) = (IF ok THEN 1 ELSE 0)
           /\ \A i \in 1..Len(out) :
                LET s == can_unify(function.arg, argument.res).subs
                IN  /\ is_function(out[i])
                    /\ out[i].res = substitute(function.res, s)
                    /\ out[i].arg = substitute(argument.arg, s)
                    /\ out[i].dir = argument.dir

\* a composition whose two operands have different directions produced a
\* category with the argument operand's direction
C9_Witness ==
    /\ op = "Composition"
    /\ can
    /\ Len(out) = 1
    /\ function.dir # argument.dir
    /\ out[1].dir = argument.dir

\* what C10 says can_combine is
C10_Combinable ==
    /\ is_function(function)
    /\ is_function(function.res)
    /\ is_primitive(function.arg)
    /\ is_function(argument)
    /\ can_compose(function.dir) /\ can_compose(argument.dir)
    /\ function.res.arg = argument.res
    /\ function.arg = argument.arg

\* C10: Substitution.can_combine holds exactly on a doubly functional
\* function with a primitive argument and a functional argument operand, both
\* composable, with function.res.arg = argument.res and function.arg =
\* argument.arg structurally; combine then yields the one category
\* function.res.res | argument.arg with argument's direction, and yields
\* nothing (without failing) otherwise.
C10_SubstitutionIff ==
    op = "Substitution"
    => /\ ~raised
       /\ can = C10_Combinable
       /\ can => out = <<FunctionalCategory(function.res.res, argument.arg,
                                            argument.dir)>>
       /\ ~can => out = <<>>

(***************************************************************************)
(* Properties of chart_parse.                                              *)
(***************************************************************************)
\* the edges over the whole input
Spanning == {i \in 1..Len(edges) : edges[i].span = <<0, Len(tokens)>>}

\* those of the start category
StartEdges == {i \in Spanning : edges[i].categ = lexicon.start}

Range(seq) == {seq[i] : i \in 1..Len(seq)}

\* the failure came while the trees were built, after the chart was filled
OutputFailed == pc = "error" /\ index = Len(tokens) /\ pos = NoPos

\* the lookup of a token failed
LookupFailed == pc = "error" /\ index < Len(tokens)

\* t has a node with a single child, made by a type-raising rule
RECURSIVE HasTypeRaised(_)
HasTypeRaised(t) ==
    /\ t.rule \notin {"Leaf", "Word"}
    /\ \/ Len(t.children) = 1
       \/ \E k \in 1..Len(t.children) : HasTypeRaised(t.children[k])

\* C1: chart_parse returns exactly the trees of the edges that span
\* (0, len(tokens)) and have the category lexicon.start(): the root of every
\* returned tree carries the start category over the whole input, and with
\* no such edge the result is the empty sequence and no error is raised.
C1_ParsesAreStartEdges ==
    /\ pc = "done"
       => /\ Range(result) = UNION {Range(trees(e)) : e \in StartEdges}
          /\ \A i \in 1..Len(result) : /\ result[i].categ = lexicon.start
                                       /\ result[i].token = tokens
          /\ StartEdges = {} => result = <<>>
    /\ StartEdges = {} => ~OutputFailed

\* a parse that returned trees from a chart holding an edge over the whole
\* input whose category is not the start category
C1_Witness ==
    /\ pc = "done"
    /\ run = 1
    /\ result # <<>>
    /\ Spanning # StartEdges

\* C2: the leaf words of every returned tree, left to right, are the input
\* tokens, whatever binary and type-raised edges the tree is made of.
C2_LeavesAreTokens ==
    pc = "done" => \A i \in 1..Len(result) : leaves(result[i]) = tokens

\* a returned tree with binary nodes and a type-raised node
C2_Witness ==
    /\ pc = "done"
    /\ run = 1
    /\ \E i \in 1..Len(result) : /\ HasTypeRaised(result[i])
                                 /\ Len(result[i].children) = 2

\* the parse of Scenario A is over
ScenarioADone ==
    /\ pc = "done"
    /\ lexicon.entries = ScenarioA.entries
    /\ lexicon.start = ScenarioA.start
    /\ rules = DefaultRuleSet
    /\ tokens = <<"I", "read", "the", "book">>

\* C3: with the: NP/N, I: NP, read: (S\NP)/NP, book: N, start S and the
\* default rule set, [I, read, the, book] has exactly 7 distinct derivation
\* trees, each with root S over (0, 4).
C3_SevenDerivations ==
    ScenarioADone
    => /\ Len(result) = 7
       /\ Cardinality(Range(result)) = 7
       /\ \A i \in 1..Len(result) :
              /\ result[i].categ = PrimitiveCategory("S", <<>>)
              /\ result[i].token = tokens
              /\ Len(result[i].token) = 4

C3_Witness == ScenarioADone /\ run = 1 /\ result # <<>>

\* the parse of Scenario C is over
ScenarioCDone ==
    /\ pc = "done"
    /\ lexicon = ScenarioC
    /\ tokens = <<"read", "the", "book">>

ReadBook ==
    ApplicationExpression(ConstantExpression("read"),
                          ConstantExpression("book"))

\* C4: with the: NP/N {\x.x}, book: N {book}, read: S/NP {\x.read(x)} and
\* start S, every tree returned for [read, the, book] has the root term
\* read(book), the one by applications only and the one that composes read
\* with the.
C4_ReadBook ==
    ScenarioCDone => \A i \in 1..Len(result) : result[i].sem = ReadBook

\* both derivations were returned, one of them through >B
C4_Witness ==
    /\ ScenarioCDone
    /\ run = 1
    /\ \E i, j \in 1..Len(result) :
          /\ result[i].children[1].rule = ">B"
          /\ result[j].children[2].rule = ">"

\* C6: with a token that has no entry in the lexicon, chart_parse ends in a
\* lookup failure before any edge is inserted, and never returns a result.
C6_UnknownTokenFails ==
    (\E i \in 1..Len(tokens) : tokens[i] = UnknownWord)
    => /\ pc # "done"
       /\ pc = "error" => LookupFailed /\ edges = <<>>

\* a lexicon read by fromstring answered the unknown word with the empty
\* list, and chart_parse returned
C6_Divergence ==
    /\ pc = "done"
    /\ run = 1
    /\ lexicon.kind = "defaultdict"
    /\ \E i \in 1..Len(tokens) : tokens[i] = UnknownWord

C10_Divergence ==
    /\ op = "Substitution"
    /\ raised
    /\ is_function(function)
    /\ is_var(function.res)
    /\ is_function(argument)

(***************************************************************************)
(* Properties of TypeRaise.  In SpecCombine the category to raise is       *)
(* `argument` and the category it is raised against is `function`.         *)
(***************************************************************************)
\* C11: TypeRaise.can_combine(function, arg) is true exactly when arg is
\* functional with a functional result, function is primitive and function
\* unifies with the argument of arg's innermost functional category; it is
\* false for every function that is not primitive.
C11_TypeRaiseIff ==
    op = "TypeRaise"
    => /\ can = (/\ is_function(function)
                 /\ is_function(function.res)
                 /\ is_primitive(argument)
                 /\ can_unify(argument,
                              innermostFunction(function).arg).ok)
       /\ ~is_primitive(argument) => ~can

\* can_combine answered true for a functional category to raise, for which
\* combine yields nothing
C11_Divergence ==
    /\ op = "TypeRaise"
    /\ is_function(argument)
    /\ can
    /\ out = <<>>

\* C12: whenever TypeRaise.combine yields, it yields exactly the one
\* category X|(X|function) with the inner direction d of arg's innermost
\* functional category and the outer direction -d, the slash of d flipped
\* and its flags kept, X being the innermost result after substitution.
C12_RaisedShape ==
    (op = "TypeRaise" /\ out # <<>>)
    => LET inner == innermostFunction(function)
           d == inner.dir
           X == substitute(inner.res, can_unify(argument, inner.arg).subs)
       IN  /\ Len(out) = 1
           /\ is_function(out[1])
           /\ out[1].res = X
           /\ out[1].arg = FunctionalCategory(X, argument, d)
           /\ out[1].dir.slash # d.slash
           /\ out[1].dir.composable = d.composable
           /\ out[1].dir.crossable = d.crossable

\* a primitive X raised against (Y\X)/Z gave Y/(Y\X), the outer slash of the
\* argument category being the other way than its inner one
C12_Witness ==
    /\ op = "TypeRaise"
    /\ is_primitive(argument)
    /\ is_function(function)
    /\ is_function(function.res)
    /\ is_primitive(function.res.res)
    /\ function.res.arg = argument
    /\ function.res.dir = Bwd
    /\ function.dir.slash = "/"
    /\ out = <<FunctionalCategory(
                   function.res.res,
                   FunctionalCategory(function.res.res, argument, Bwd),
                   Fwd)>>

(***************************************************************************)
(* Properties of the directional rules (SpecRule).                         *)
(***************************************************************************)
\* the rule the call was made on
TheRule ==
    IF op \in DOMAIN RuleTable THEN RuleTable[op] ELSE Combinators[op]

C14_AtMostOneAndOnlyDeclared ==
    /\ op \in (DOMAIN RuleTable) \cup (DOMAIN Combinators) => Len(out) <= 1
    /\ (op \in DOMAIN Combinators /\ ~raised /\ ~can) => out = <<>>

\* a rule of the Combinators table returned [] on a pair its combinator
\* would combine, because the predicate does not hold
C14_Witness ==
    /\ op \in DOMAIN Combinators
    /\ ~raised
    /\ ~can
    /\ out = <<>>
    /\ MyCombinator_combine_Unchecked(op, function, argument) # <<>>

(***************************************************************************)
(* Properties of derivation extraction and chart filling (Spec).           *)
(***************************************************************************)
\* in t and below, a node with two children, one of them without a term,
\* has no term itself
RECURSIVE AbsentTermPropagates(_)
AbsentTermPropagates(t) ==
    /\ (Len(t.children) = 2
          /\ \E k \in 1..2 : t.children[k].sem = None)
       => t.sem = None
    /\ \A k \in 1..Len(t.children) : AbsentTermPropagates(t.children[k])

\* C15: in derivation extraction, if either child of a binary node has no
\* semantic term, the parent has none and no error is raised; the tree is
\* still produced.
C15_AbsentTermNoError ==
    (pc = "done" \/ OutputFailed)
    => \A i \in 1..Len(parses) : AbsentTermPropagates(parses[i])

\* the extraction failed at a root whose left child has a term and whose
\* right child, the word book, has none
C15_Divergence ==
    /\ OutputFailed
    /\ run = 1
    /\ lexicon = MixedSemantics
    /\ \E i \in 1..Len(parses) :
          /\ Len(parses[i].children) = 2
          /\ parses[i].children[1].sem # None
          /\ parses[i].children[2].sem = None
          /\ parses[i].sem = Raised

\* chart_parse has a next step to take: a token to look up, a pair of edges
\* under its two iterators, or the trees to hand out
StepReady ==
    /\ pc = "leaves" => index < Len(tokens)
    /\ pc = "sweep"
       => /\ pos.span \in 2..Len(tokens)
          /\ pos.left \in 1..Len(select(edges, LeftSpan(pos)))
          /\ pos.right \in 1..Len(select(edges, RightSpan(pos)))

\* C16: chart_parse terminates, with a finite chart and a finite sequence of
\* trees, although the type-raising rules insert edges into the span lists
\* the sweep is iterating over: it takes finitely many steps, and until it
\* has returned or failed it always has a next step.
C16_Terminates ==
    /\ <>[][FALSE]_vars
    /\ [](pc \in {"leaves", "sweep", "parses"} => StepReady)

\* a parse returned after type-raised edges were appended to a span list
\* during the sweep
C16_Witness ==
    /\ pc = "done"
    /\ run = 1
    /\ result # <<>>
    /\ \E i \in 1..Len(edges) :
          /\ edges[i].rule \in {"ForwardT", "BackwardT"}
          /\ \E j \in 1..Len(edges) :
                /\ edges[j].kind = "edge"
                /\ i \in Range(cpls[j][1])

\* the pair of edges under the two iterators of the sweep
LeftEdge == edges[select(edges, LeftSpan(pos))[pos.left]]

RightEdge == edges[select(edges, RightSpan(pos))[pos.right]]

\* the i-th edge of the next chart is new, or has a new child-pointer list
Touched(i) == i > Len(edges) \/ cpls'[i] # cpls[i]

\* C17: during chart filling a type-raised edge is inserted for a pair
\* (left, right) only if the directional type-raising rule's
\* can_combine(left.categ, right.categ) holds, predicate included.
C17_RaisedOnlyIfCanCombine ==
    [][pc = "sweep"
       => \A i \in 1..Len(edges') :
             (edges'[i].rule \in {"ForwardT", "BackwardT"} /\ Touched(i))
             => Rule_can_combine(edges'[i].rule, LeftEdge.categ,
                                 RightEdge.categ)]_vars

\* the chart holds an edge raised by BackwardT, and no edge that ends where
\* it starts makes BackwardT's can_combine true with the raised operand
C17_Divergence ==
    \E i \in 1..Len(edges) :
        /\ edges[i].rule = "BackwardT"
        /\ \A l \in 1..Len(edges) :
              edges[l].span[2] = edges[i].span[1]
              => ~Rule_can_combine("BackwardT", edges[l].categ,
                                   edges[cpls[i][1][1]].categ)

Width(edge) == edge.span[2] - edge.span[1]

\* the span length of the sweep in progress; past every span length once the
\* sweeps are over
SweepSpan == IF pc = "sweep" THEN pos.span ELSE Len(tokens) + 1

\* C18: once the sweep for span length L has begun, no edge whose span is
\* shorter than L is inserted and no child-pointer list is appended to such
\* an edge, for the rest of the parse.
C18_ShorterSpansFinal ==
    [][\A i \in 1..Len(edges') :
          (pc \in {"sweep", "parses"} /\ Width(edges'[i]) < SweepSpan)
          => (~Touched(i))]_vars

\* the chart holds an edge over one token that is not a leaf edge: it was
\* inserted by a sweep, whose span lengths start at 2
C18_Divergence ==
    /\ pc \in {"sweep", "parses"}
    /\ \E i \in 1..Len(edges) :
          edges[i].kind = "edge" /\ Width(edges[i]) = 1

\* the binary rules among the configured ones
BinaryRules == Range(rules) \ {"ForwardT", "BackwardT"}

\* the rule combines the categories of the edges l and r
Combines(rule, l, r) ==
    /\ edges[l].span[2] = edges[r].span[1]
    /\ ~Rule_raises(rule, edges[l].categ, edges[r].categ)
    /\ Rule_can_combine(rule, edges[l].categ, edges[r].categ)

\* the chart holds the edge the rule builds from l and r, with (l, r) among
\* its child-pointer lists
Derived(rule, l, r) ==
    \A c \in Range(Rule_combine(rule, edges[l].categ, edges[r].categ)) :
        \E e \in 1..Len(edges) :
            /\ edges[e].kind = "edge"
            /\ edges[e].span = <<edges[l].span[1], edges[r].span[2]>>
            /\ edges[e].categ = c
            /\ edges[e].rule = rule
            /\ <<l, r>> \in Range(cpls[e])

\* C19: when chart_parse finishes, the chart is closed under the configured
\* binary rules: for every two adjacent edges l and r, type-raised ones
\* included, and every binary rule that can combine their categories, the
\* chart holds the resulting edge over (l.start, r.end) with that rule and
\* (l, r) among its child-pointer lists.
C19_ClosedUnderBinaryRules ==
    pc = "done"
    => \A l \in 1..Len(edges), r \in 1..Len(edges) :
          \A rule \in BinaryRules :
              Combines(rule, l, r) => Derived(rule, l, r)

\* a finished chart in which a rule combines an edge with a type-raised edge
\* next to it and the edge that combination builds is missing
C19_Divergence ==
    /\ pc = "done"
    /\ \E l \in 1..Len(edges), r \in 1..Len(edges) :
          /\ edges[r].rule \in {"ForwardT", "BackwardT"}
          /\ \E rule \in BinaryRules :
                Combines(rule, l, r) /\ ~Derived(rule, l, r)

\* the leaf edges over (i, i + 1)
LeafEdges(i) ==
    {e \in 1..Len(edges) :
        edges[e].kind = "leaf" /\ edges[e].span = <<i, i + 1>>}

\* the loop over the leaves has ended without an exception
Initialized == pc \in {"sweep", "parses", "done"} /\ index = Len(tokens)

\* the entries the lexicon assigns to the token at position i
Entries(i) == categories(lexicon, tokens[i + 1])

\* C20: after initialization the chart holds, for every token position i, one
\* leaf edge over (i, i + 1) per (category, semantic term) entry of the
\* token, each carrying its own entry's term; two entries with the same
\* category and different terms give two leaf edges.
C20_OneLeafEdgePerEntry ==
    Initialized
    => \A i \in 0..(Len(tokens) - 1) :
          /\ Cardinality(LeafEdges(i)) = Cardinality(Range(Entries(i)))
          /\ \A entry \in Range(Entries(i)) :
                \E e \in LeafEdges(i) : edges[e].token = entry

\* a token with two entries of one category and different terms has one leaf
\* edge, and the second entry's term is on no leaf edge
C20_Divergence ==
    /\ Initialized
    /\ \E i \in 0..(Len(tokens) - 1) :
          \E j \in 1..Len(Entries(i)), k \in 1..Len(Entries(i)) :
              /\ j < k
              /\ Entries(i)[j].categ = Entries(i)[k].categ
              /\ Entries(i)[j].sem # Entries(i)[k].sem
              /\ Cardinality(LeafEdges(i)) = 1
              /\ \A e \in LeafEdges(i) : edges[e].token = Entries(i)[j]

\* the key of a derived edge
EdgeKey(e) == <<e.span, e.categ, e.rule>>

\* the sequence s is the beginning of the sequence t
IsPrefix(s, t) == Len(s) <= Len(t) /\ SubSeq(t, 1, Len(s)) = s

\* no two derived edges of the chart have the same (span, category, rule)
NoDuplicateEdges ==
    \A i \in 1..Len(edges), j \in 1..Len(edges) :
        (i # j /\ edges[i].kind = "edge" /\ edges[j].kind = "edge")
        => EdgeKey(edges[i]) # EdgeKey(edges[j])

\* a step of chart filling keeps every edge and every child-pointer list
NothingRemoved ==
    pc \in {"leaves", "sweep"}
    => /\ IsPrefix(edges, edges')
       /\ \A i \in 1..Len(edges) : IsPrefix(cpls[i], cpls'[i])

\* after a step on the pair (LeftEdge, RightEdge), what a binary rule
\* combines from the pair is an edge of the chart that has the pair among
\* its child-pointer lists, whether the edge is new or was there before
PairRecorded ==
    (pc = "sweep" /\ pc' # "error")
    => LET l == select(edges, LeftSpan(pos))[pos.left]
           r == select(edges, RightSpan(pos))[pos.right]
       IN  \A rule \in BinaryRules :
              Combines(rule, l, r)
              => \A c \in Range(Rule_combine(rule, edges[l].categ,
                                             edges[r].categ)) :
                    \E e \in 1..Len(edges') :
                        /\ EdgeKey(edges'[e])
                             = <<(<<edges[l].span[1], edges[r].span[2]>>),
                                 c, rule>>
                        /\ <<l, r>> \in Range(cpls'[e])

\* C21: in every state of chart filling no two derived edges have the same
\* (span, category, rule); inserting an edge whose key is present adds no
\* edge and appends its child-pointer list to the existing edge; no edge
\* and no child-pointer list is ever removed.
C21_EdgesUniqueAndKept ==
    /\ []NoDuplicateEdges
    /\ [][NothingRemoved /\ PairRecorded]_vars

\* a derived edge of the chart has two child-pointer lists: its key was
\* inserted a second time
C21_Witness ==
    /\ pc \in {"sweep", "parses"}
    /\ \E i \in 1..Len(edges) :
          edges[i].kind = "edge" /\ Len(cpls[i]) >= 2

TypeRaised(e) == e.kind = "edge" /\ e.rule \in {"ForwardT", "BackwardT"}

BinaryEdge(e) == e.kind = "edge" /\ e.rule \notin {"ForwardT", "BackwardT"}

\* the child-pointer list is a pair of edges that split the span
SplitsSpan(cpl, span) ==
    /\ Len(cpl) = 2
    /\ cpl[1] \in 1..Len(edges) /\ cpl[2] \in 1..Len(edges)
    /\ edges[cpl[1]].span[1] = span[1]
    /\ edges[cpl[1]].span[2] = edges[cpl[2]].span[1]
    /\ edges[cpl[2]].span[2] = span[2]

\* the child-pointer list is one edge over the span
CoversSpan(cpl, span) ==
    /\ Len(cpl) = 1
    /\ cpl[1] \in 1..Len(edges)
    /\ edges[cpl[1]].span = span

\* C22: in every reachable chart every edge has start < end; a leaf edge has
\* width 1 and an empty child-pointer list; each child-pointer list of an
\* edge of a binary rule is a pair (left, right) that splits the edge's
\* span; each child-pointer list of a type-raised edge is a single edge with
\* the edge's span.
C22_WellFormedChart ==
    /\ Len(cpls) = Len(edges)
    /\ \A i \in 1..Len(edges) :
          /\ edges[i].span[1] < edges[i].span[2]
          /\ edges[i].kind = "leaf"
             => Width(edges[i]) = 1 /\ cpls[i] = << <<>> >>
          /\ BinaryEdge(edges[i])
             => \A cpl \in Range(cpls[i]) : SplitsSpan(cpl, edges[i].span)
          /\ TypeRaised(edges[i])
             => \A cpl \in Range(cpls[i]) : CoversSpan(cpl, edges[i].span)

\* a filled chart with a leaf edge, an edge of a binary rule over more than
\* two tokens and a type-raised edge
C22_Witness ==
    /\ pc = "parses"
    /\ \E i \in 1..Len(edges) : edges[i].kind = "leaf"
    /\ \E i \in 1..Len(edges) : BinaryEdge(edges[i]) /\ Width(edges[i]) > 2
    /\ \E i \in 1..Len(edges) : TypeRaised(edges[i])

\* the call was made on the backward crossed composition rule and its
\* can_combine(left, right) was true
BackwardBxCombines == op \in {"BackwardBx", "BACKWARD_BX"} /\ ~raised /\ can

\* C23: BackwardBx can combine (left, right) only if left is forward, right
\* is backward, left's argument is primitive and the direction flags permit
\* crossing; it never combines a pair in which neither left's nor right's
\* direction is crossable.
C23_BackwardBxOnlyCrossable ==
    BackwardBxCombines
    => /\ is_function(function) /\ is_function(argument)
       /\ is_forward(function.dir)
       /\ is_backward(argument.dir)
       /\ is_primitive(function.arg)
       /\ can_cross(function.dir) \/ can_cross(argument.dir)

\* BackwardBx combined a forward left with a backward right, neither of
\* which is crossable
C23_Divergence ==
    /\ BackwardBxCombines
    /\ out # <<>>
    /\ is_forward(function.dir) /\ is_backward(argument.dir)
    /\ ~can_cross(function.dir)
    /\ ~can_cross(argument.dir)

\* the number of derivations of an edge: the sum over its child-pointer
\* lists of the product of the numbers of its children
RECURSIVE Derivations(_)
RECURSIVE DerivationsOfCpls(_, _)
DerivationsOfCpl(cpl) ==
    IF Len(cpl) = 1 THEN Derivations(cpl[1])
    ELSE Derivations(cpl[1]) * Derivations(cpl[2])

DerivationsOfCpls(e, k) ==
    IF k > Len(cpls[e]) THEN 0
    ELSE DerivationsOfCpl(cpls[e][k]) + DerivationsOfCpls(e, k + 1)

Derivations(e) ==
    IF edges[e].kind = "leaf" THEN 1 ELSE DerivationsOfCpls(e, 1)

\* the trees of the edge are built without a failure of the semantics
Extractable(e) == \A k \in 1..Len(trees(e)) : trees(e)[k].sem # Raised

\* the tree is one of the edge: its category, the display symbol of its
\* rule and the tokens of its span
TreeOfEdge(t, e) ==
    /\ t.categ = edges[e].categ
    /\ t.rule = RuleTable[edges[e].rule].str
    /\ t.token = SubSeq(tokens, edges[e].span[1] + 1, edges[e].span[2])

\* C24: derivation extraction returns one tree per choice of a child-pointer
\* list and a derivation of each child in it: the number of trees of a
\* derived edge is the sum over its child-pointer lists of the product of
\* its children's tree counts, a leaf edge has exactly one tree, and each
\* tree carries the edge's category, the rule's display symbol and the
\* tokens of the edge's span.
C24_OneTreePerChoice ==
    pc = "done"
    => \A e \in 1..Len(edges) :
          /\ edges[e].kind = "leaf" => Len(trees(e)) = 1
          /\ (edges[e].kind = "edge" /\ Extractable(e))
             => /\ Len(trees(e)) = Derivations(e)
                /\ \A k \in 1..Len(trees(e)) : TreeOfEdge(trees(e)[k], e)
                /\ \A j \in 1..Len(trees(e)), k \in 1..Len(trees(e)) :
                      trees(e)[j] = trees(e)[k] => j = k

\* a returned parse comes from an edge with two child-pointer lists, one of
\* them over a child that has several derivations itself
C24_Witness ==
    /\ pc = "done"
    /\ \E e \in Range(RootEdges) :
          /\ Len(cpls[e]) >= 2
          /\ Extractable(e)
          /\ Derivations(e) > Len(cpls[e])

\* the rule a node of a tree was made by, from its display symbol
RuleOfStr(str) == CHOOSE r \in DOMAIN RuleTable : RuleTable[r].str = str

\* the term the combinator gives for a function-term and an argument-term
Composed(combinator, fn, arg) ==
    CASE combinator = "FunctionApplication" ->
              compute_function_semantics(fn, arg)
      [] combinator = "Composition" -> compute_composition_semantics(fn, arg)
      [] combinator = "Substitution" ->
              compute_substitution_semantics(fn, arg)
      [] OTHER -> Raised

\* in t and below, a node of a backward rule over two terms has the term its
\* combinator gives for (right child's term, left child's term), a node of
\* a forward rule the one for (left child's term, right child's term), and
\* a type-raised node the raised term of its only child
RECURSIVE SwapsByDirection(_)
SwapsByDirection(t) ==
    /\ (Len(t.children) = 2
          /\ \A k \in 1..2 : isExpression(t.children[k].sem))
       => LET r == RuleTable[RuleOfStr(t.rule)]
              left == t.children[1].sem
              right == t.children[2].sem
          IN  t.sem = IF r.backward THEN Composed(r.combinator, right, left)
                      ELSE Composed(r.combinator, left, right)
    /\ (t.rule \notin {"Leaf", "Word"} /\ Len(t.children) = 1
          /\ isExpression(t.children[1].sem))
       => t.sem = compute_type_raised_semantics(t.children[1].sem)
    /\ \A k \in 1..Len(t.children) : SwapsByDirection(t.children[k])

\* C25: the term of a binary node of a backward rule is computed with the
\* right child's term as the function-term and the left child's term as the
\* argument-term; for a forward rule the left child's term is the
\* function-term; a type-raised node uses its single child's term and never
\* swaps.
C25_BackwardSwapsTerms ==
    (pc = "done" \/ OutputFailed)
    => \A i \in 1..Len(parses) : SwapsByDirection(parses[i])

\* in t or below, a node of a backward rule whose term differs from what the
\* combinator gives for the children's terms in the order left, right
RECURSIVE HasSwappedNode(_)
HasSwappedNode(t) ==
    \/ /\ Len(t.children) = 2
       /\ \A k \in 1..2 : isExpression(t.children[k].sem)
       /\ RuleTable[RuleOfStr(t.rule)].backward
       /\ isExpression(t.sem)
       /\ t.sem # Composed(RuleTable[RuleOfStr(t.rule)].combinator,
                           t.children[1].sem, t.children[2].sem)
    \/ \E k \in 1..Len(t.children) : HasSwappedNode(t.children[k])

\* a returned tree has a node of a backward rule for which the order of
\* the terms matters, and a type-raised node with a term
C25_Witness ==
    /\ pc = "done"
    /\ \E i \in 1..Len(result) : HasSwappedNode(result[i])
    /\ \E i \in 1..Len(result) :
          HasTypeRaised(result[i]) /\ isExpression(result[i].sem)

(***************************************************************************)
(* Properties of the semantics functions (SpecSem).                        *)
(***************************************************************************)
TypeRaiseRules == {"FORWARD_TYPE_RAISE", "BACKWARD_TYPE_RAISE"}

\* the term of the token a type-raising rule raises: the left token's for
\* the forward rule, the right token's for the backward rule
RaisedOperand(rule) ==
    IF Combinators[rule].backward THEN argument ELSE function

\* the term is \F.F(t) for a variable F that is not free in t
IsRaisedTerm(r, t) ==
    /\ isLambda(r)
    /\ r.term = ApplicationExpression(VariableExpression(r.variable), t)
    /\ r.variable \notin free(t)

\* C26: the type-raising semantics of an operand term t is the abstraction
\* \F.F(t) with F not free in t, for every t, a t that is itself an
\* abstraction included: the whole of t is the argument of F.
C26_RaisedTermIsWholeOperand ==
    [][(op' \in TypeRaiseRules /\ ~raised')
       => IsRaisedTerm(out'[1], RaisedOperand(op'))]_vars

\* a type-raising call on an abstraction returned \F.F(body) for the
\* innermost body of the operand, and the operand's body is now that same
\* application
C26_Divergence ==
    /\ op \in TypeRaiseRules
    /\ ~raised
    /\ isLambda(RaisedOperand(op))
    /\ ~isLambda(out[1].term.arg)
    /\ out[1].term = innermostTerm(RaisedOperand(op))

\* the rule the semantics call was made with
RuleOfCall == IF op \in DOMAIN Combinators THEN Combinators[op] ELSE RuleOf(op)

\* the function-term and the argument-term of the call
FunctionTerm == IF RuleOfCall.backward THEN argument ELSE function

ArgumentTerm == IF RuleOfCall.backward THEN function ELSE argument

\* both tokens, or both children, have a term
TermsPresent == isExpression(function) /\ isExpression(argument)

\* the call ended in an assertion failure and gave no term
AssertionFailed == raised /\ exc = "AssertionError" /\ out = <<>>

\* C27: a semantic-term shape violation is a fatal failure and is never
\* turned into an absent term: composition semantics with an argument-term
\* that is not an abstraction, and substitution semantics with a
\* function-term that is not an abstraction nested over two variables or an
\* argument-term that is not an abstraction, end in an error; a rule whose
\* combinator is none of application, composition, substitution or
\* type-raising ends in an assertion failure.
C27_ShapeViolationsFatal ==
    (op # "none" /\ TermsPresent)
    => /\ (RuleOfCall.combinator = "Composition" /\ ~isLambda(ArgumentTerm))
          => AssertionFailed
       /\ (RuleOfCall.combinator = "Substitution"
             /\ \/ ~isLambda(ArgumentTerm)
                \/ ~isLambda(FunctionTerm)
                \/ ~isLambda(FunctionTerm.term))
          => AssertionFailed
       /\ RuleOfCall.combinator
              \notin {"FunctionApplication", "Composition", "Substitution",
                      "TypeRaise"}
          => AssertionFailed

\* compute_semantics on a binary node of a rule over an unsupported
\* combinator ended in a TypeError
C27_Divergence ==
    /\ op = CustomRule
    /\ TermsPresent
    /\ raised
    /\ exc = "TypeError"

\* C28: in my_parse the assertion that a rule returns exactly one category
\* never fails: for every rule of the Combinators table and every pair of
\* categories, can_combine(a, b) being true implies that combine(a, b)
\* returns a list of length exactly 1, the type-raising rules with an
\* operand that is not primitive included.
C28_CombineReturnsOne ==
    (op \in (DOMAIN Combinators) \cup (DOMAIN RuleTable) /\ ~raised /\ can)
    => Len(out) = 1

\* a type-raising rule of the Combinators table said it can combine a pair
\* whose operand to raise is a functional category, and returned no category
C28_Divergence ==
    /\ op \in TypeRaiseRules
    /\ ~raised
    /\ can
    /\ out = <<>>
    /\ is_function(IF Combinators[op].backward THEN argument ELSE function)

\* C29: a parse leaves the lexicon unchanged: the same set of words, the
\* same entry list for each word, the same category and semantic term in
\* each entry; looking up a word adds no entry.
C29_LexiconUnchanged ==
    [][/\ DOMAIN lexicon'.entries = DOMAIN lexicon.entries
       /\ lexicon' = lexicon]_vars

\* chart_parse has returned and the lexicon has the unknown word of the
\* input among its words
C29_Divergence ==
    /\ pc = "done"
    /\ run = 1
    /\ UnknownWord \in Range(tokens)
    /\ UnknownWord \in DOMAIN lexicon.entries
    /\ lexicon.entries[UnknownWord] = <<>>

(***************************************************************************)
(* Properties of the LexiconBuilder (SpecBuilder).                         *)
(***************************************************************************)
\* the tags a subscript names: the string itself, or the items of the tuple
RECURSIVE Joined(_)
Joined(chars) ==
    IF chars = <<>> THEN "" ELSE Head(chars) \o Joined(Tail(chars))

GivenTags(key) ==
    IF key.kind = "str" THEN <<Joined(key.chars)>> ELSE key.items

\* the tags a built thing has now
TagsNow(x) == [i \in 1..Len(x.prims) |-> builders[x.prims[i]]]

\* C30: categories are never mutated after construction: attaching
\* restriction tags to a primitive gives a category whose tags are exactly
\* the tags given in that call, and every category, family or entry built
\* earlier from the same primitive still has the tags it had when it was
\* built.
C30_CategoriesNotMutated ==
    /\ op = "__getitem__" => out = GivenTags(argument)
    /\ \A i \in 1..Len(built) : TagsNow(built[i]) = built[i].tags

\* a builder was tagged a second time, with a tuple of tags: its category
\* has the tags of both calls, and so has an entry built between the calls
C30_Divergence ==
    /\ op = "__getitem__"
    /\ argument.kind = "tuple"
    /\ Len(out) > Len(argument.items)
    /\ \E i \in 1..Len(built) :
          /\ built[i].kind = "entry"
          /\ built[i].prims = <<function>>
          /\ built[i].tags # <<>>
          /\ TagsNow(built[i]) # built[i].tags

====
